---- MODULE Spec2Model ----
(***************************************************************************)
(* Model of the risk scoring engine of the chess anti-cheat extension      *)
(* (src/chess-anti-cheat-firefox/src/risk-score.js, config.js).            *)
(*                                                                         *)
(* JavaScript Numbers are modelled as exact rationals <<n, d>> in lowest   *)
(* terms with d > 0; NaN is <<0, 0>>.  IEEE-754 rounding of intermediate   *)
(* results is not modelled.  The timestamp field of a result is left out.  *)
(*                                                                         *)
(* THRESHOLDS is window.ChessAntiCheat.config.THRESHOLDS, the object the   *)
(* functions read at each call; its fields start at the values config.js   *)
(* sets.                                                                   *)
(***************************************************************************)
EXTENDS Integers, Sequences, FiniteSets, TLC

VARIABLES weightCache, pc, call, THRESHOLDS

\* the state of the background script (background/background.js): the value of
\* Date.now(), its module-level variables, browser.storage.local, and the
\* message handlers in flight
VARIABLES now, currentOpponentData, opponentHistory, analysisCache, storage, handlers

\* the cache of the caching version of utils.js (src/unnamed/part_001)
VARIABLES apiCache

\* the state of the content script (content/content.js): its module-level
\* lastOpponent and badgeElement, the opponent the page shows (document), and
\* the analyzeOpponent messages whose response has not arrived (pending)
VARIABLES lastOpponent, badgeElement, document, pending

engineVars == <<weightCache, pc, call, THRESHOLDS>>

utilsVars == <<apiCache>>

contentVars == <<lastOpponent, badgeElement, document, pending>>

backgroundVars ==
    <<now, currentOpponentData, opponentHistory, analysisCache, storage, handlers>>

vars == <<engineVars, backgroundVars, utilsVars, contentVars>>

(***************************************************************************)
(* Bounds of the model.                                                    *)
(***************************************************************************)
\* largest sample size (number of games) of an input
MaxGames == 20
\* the length opponentHistory is cut to: stands for the 50 of addToHistory
HistoryLimit == 2
\* the clock of the background script advances at most MaxTicks times
MaxTicks == 1
\* largest lifetime count of wins, of losses and of draws given to calculateFormatMetrics
MaxCount == 2
\* longest list of recent games given to calculateFormatMetrics
MaxRecentGames == 3
\* resolution of the percentages of an input: multiples of 1/PctDen percent
PctDen == 2
\* account ages range over ACCOUNT_AGE_DAYS - AgeSpan .. ACCOUNT_AGE_DAYS + AgeSpan
AgeSpan == 2

(***************************************************************************)
(* JavaScript Number arithmetic.                                           *)
(***************************************************************************)
RECURSIVE GCD(_, _)
GCD(a, b) == IF b = 0 THEN a ELSE GCD(b, a % b)

Abs(x) == IF x < 0 THEN -x ELSE x

NaN == <<0, 0>>

isNaN(x) == x[2] = 0

Rat(n, d) ==
    LET g == GCD(Abs(n), Abs(d))
        s == IF d < 0 THEN -1 ELSE 1
    IN  <<s * (n \div g), s * (d \div g)>>

Num(i) == <<i, 1>>

RAdd(x, y) == Rat(x[1] * y[2] + y[1] * x[2], x[2] * y[2])

RSub(x, y) == Rat(x[1] * y[2] - y[1] * x[2], x[2] * y[2])

RMul(x, y) == Rat(x[1] * y[1], x[2] * y[2])

RDiv(x, y) == Rat(x[1] * y[2], x[2] * y[1])

\* comparisons with NaN are false
RLe(x, y) == ~isNaN(x) /\ ~isNaN(y) /\ x[1] * y[2] <= y[1] * x[2]

RLt(x, y) == ~isNaN(x) /\ ~isNaN(y) /\ x[1] * y[2] < y[1] * x[2]

RGt(x, y) == RLt(y, x)

RMin(x, y) == IF RLt(y, x) THEN y ELSE x

\* Math.floor: the largest integer <= x (\div rounds toward minus infinity)
MathFloor(x) == x[1] \div x[2]

\* Math.round: the nearest integer, a tie going up
MathRound(x) == (2 * x[1] + x[2]) \div (2 * x[2])

(***************************************************************************)
(* config.js                                                               *)
(***************************************************************************)
GAME_FORMATS == <<"chess_rapid", "chess_bullet", "chess_blitz">>

WEIGHTS_OVERALL_WINRATE == Rat(35, 100)
WEIGHTS_RECENT_WINRATE == Rat(35, 100)
WEIGHTS_HIGH_ACCURACY == Rat(30, 100)

ACCOUNT_AGE_DAYS == 60
WEIGHTING_K == 20
MIN_GAMES == 5
ACCOUNT_AGE_MULTIPLIER == Rat(15, 10)

LOW_WINRATE_THRESHOLD == Rat(5, 10)
MEDIUM_WINRATE_THRESHOLD == Rat(6, 10)
HIGH_WINRATE_THRESHOLD == Rat(7, 10)
BASE_SCORE == 50
EXTENDED_SCORE == 100
SCALE_FACTOR == Rat(1, 10)

MODERATE_SUSPICION_THRESHOLD == 10
HIGH_SUSPICION_THRESHOLD == 20
EXTREME_SUSPICION_THRESHOLD == 30
MODERATE_MAX_SCORE == 50
HIGH_MAX_SCORE == 100
EXTREME_SCORE_INCREMENT == 50
EXTREME_SCORE_STEP == 5

ACCURACY_THRESHOLDS ==
    [LOW_RATING  |-> [threshold |-> 1500, requiredAccuracy |-> 80],
     HIGH_RATING |-> [threshold |-> 1500, requiredAccuracy |-> 90]]

\* the settings fields the metrics read
DEFAULT_SETTINGS == [RATED_ONLY |-> TRUE]

\* the THRESHOLDS object as config.js builds it (the fields risk-score.js reads)
DEFAULT_THRESHOLDS ==
    [ACCOUNT_AGE_DAYS |-> ACCOUNT_AGE_DAYS,
     WEIGHTING_K |-> WEIGHTING_K,
     MIN_GAMES |-> MIN_GAMES,
     ACCOUNT_AGE_MULTIPLIER |-> ACCOUNT_AGE_MULTIPLIER]

RISK_LEVELS ==
    [LOW       |-> [min |-> 0,  max |-> 30,  label |-> "Low Risk"],
     MODERATE  |-> [min |-> 31, max |-> 50,  label |-> "Moderate Risk"],
     HIGH      |-> [min |-> 51, max |-> 70,  label |-> "High Risk"],
     VERY_HIGH |-> [min |-> 71, max |-> 100, label |-> "Very High Risk"]]

(***************************************************************************)
(* risk-score.js.  A function that reads or fills the module-level         *)
(* weightCache takes the cache and returns [ret, cache].  A value that the *)
(* code binds once and reads several times is passed as a parameter to the *)
(* operator that models the statements reading it.                         *)
(***************************************************************************)
\* calculateWeight with the sample size left out of the denominator
calculateWeightNoSample(cache, n) ==
    IF n \in DOMAIN cache
    THEN [ret |-> cache[n], cache |-> cache]
    ELSE LET weight == RDiv(Num(n), Num(THRESHOLDS.WEIGHTING_K))
         IN  [ret |-> weight, cache |-> (n :> weight) @@ cache]

\* calculateWeight with a cache key shared by every sample of THRESHOLDS.MIN_GAMES
\* games or more
calculateWeightSharedKey(cache, n) ==
    LET cacheKey == IF n < THRESHOLDS.MIN_GAMES THEN n ELSE THRESHOLDS.MIN_GAMES
    IN  IF cacheKey \in DOMAIN cache
        THEN [ret |-> cache[cacheKey], cache |-> cache]
        ELSE LET weight == RDiv(Num(n), Num(n + THRESHOLDS.WEIGHTING_K))
             IN  [ret |-> weight, cache |-> (cacheKey :> weight) @@ cache]

calculateWeight(cache, n) ==
    IF n \in DOMAIN cache
    THEN [ret |-> cache[n], cache |-> cache]
    ELSE LET weight == RDiv(Num(n), Num(n + THRESHOLDS.WEIGHTING_K))
         IN  [ret |-> weight, cache |-> (n :> weight) @@ cache]

\* calculateAccountAgeFactor with the boundary exclusive (the README's "< 60 days")
calculateAccountAgeFactorExclusive(accountAgeDays) ==
    IF accountAgeDays < THRESHOLDS.ACCOUNT_AGE_DAYS
    THEN THRESHOLDS.ACCOUNT_AGE_MULTIPLIER ELSE Num(1)

calculateAccountAgeFactor(accountAgeDays) ==
    IF accountAgeDays <= THRESHOLDS.ACCOUNT_AGE_DAYS
    THEN THRESHOLDS.ACCOUNT_AGE_MULTIPLIER ELSE Num(1)

\* rawWinRateScore with the middle ramp starting from 0 instead of BASE_SCORE
rawWinRateScoreNoBase(winRate) ==
    IF RGt(winRate, HIGH_WINRATE_THRESHOLD)
    THEN RAdd(Num(EXTENDED_SCORE),
              RMul(RDiv(RSub(winRate, HIGH_WINRATE_THRESHOLD), SCALE_FACTOR),
                   Num(EXTENDED_SCORE)))
    ELSE IF RGt(winRate, MEDIUM_WINRATE_THRESHOLD)
    THEN RMul(RDiv(RSub(winRate, MEDIUM_WINRATE_THRESHOLD),
                   RSub(HIGH_WINRATE_THRESHOLD, MEDIUM_WINRATE_THRESHOLD)),
              Num(BASE_SCORE))
    ELSE IF RGt(winRate, LOW_WINRATE_THRESHOLD)
    THEN RMul(RDiv(RSub(winRate, LOW_WINRATE_THRESHOLD),
                   RSub(MEDIUM_WINRATE_THRESHOLD, LOW_WINRATE_THRESHOLD)),
              Num(BASE_SCORE))
    ELSE Num(0)

\* the local score of calculateWinRateScore once winRate is above the low
\* threshold, before the weighting
rawWinRateScore(winRate) ==
    IF RGt(winRate, HIGH_WINRATE_THRESHOLD)
    THEN RAdd(Num(EXTENDED_SCORE),
              RMul(RDiv(RSub(winRate, HIGH_WINRATE_THRESHOLD), SCALE_FACTOR),
                   Num(EXTENDED_SCORE)))
    ELSE IF RGt(winRate, MEDIUM_WINRATE_THRESHOLD)
    THEN RAdd(Num(BASE_SCORE),
              RMul(RDiv(RSub(winRate, MEDIUM_WINRATE_THRESHOLD),
                        RSub(HIGH_WINRATE_THRESHOLD, MEDIUM_WINRATE_THRESHOLD)),
                   Num(BASE_SCORE)))
    ELSE IF RGt(winRate, LOW_WINRATE_THRESHOLD)
    THEN RMul(RDiv(RSub(winRate, LOW_WINRATE_THRESHOLD),
                   RSub(MEDIUM_WINRATE_THRESHOLD, LOW_WINRATE_THRESHOLD)),
              Num(BASE_SCORE))
    ELSE Num(0)

\* weightedScore without the weight: the score is returned as it is
weightedScoreUnweighted(score, w) == [ret |-> score, cache |-> w.cache]

\* return score * calculateWeight(totalGames), w being the call of calculateWeight
weightedScore(score, w) == [ret |-> RMul(score, w.ret), cache |-> w.cache]

calculateWinRateScore(cache, winRate, totalGames) ==
    IF RLe(winRate, LOW_WINRATE_THRESHOLD)
    THEN [ret |-> Num(0), cache |-> cache]
    ELSE weightedScore(rawWinRateScore(winRate), calculateWeight(cache, totalGames))

\* baseScore with the part above EXTREME_SUSPICION_THRESHOLD interpolated (no Math.floor)
baseScoreInterpolated(highAccuracyPercentage) ==
    IF RGt(highAccuracyPercentage, Num(EXTREME_SUSPICION_THRESHOLD))
    THEN RAdd(Num(HIGH_MAX_SCORE),
              RMul(RDiv(RSub(highAccuracyPercentage, Num(EXTREME_SUSPICION_THRESHOLD)),
                        Num(EXTREME_SCORE_STEP)),
                   Num(EXTREME_SCORE_INCREMENT)))
    ELSE IF RGt(highAccuracyPercentage, Num(HIGH_SUSPICION_THRESHOLD))
    THEN LET progressInRange ==
                 RDiv(RSub(highAccuracyPercentage, Num(HIGH_SUSPICION_THRESHOLD)),
                      Num(EXTREME_SUSPICION_THRESHOLD - HIGH_SUSPICION_THRESHOLD))
         IN  RAdd(Num(MODERATE_MAX_SCORE), RMul(progressInRange, Num(MODERATE_MAX_SCORE)))
    ELSE LET progressInRange ==
                 RDiv(RSub(highAccuracyPercentage, Num(MODERATE_SUSPICION_THRESHOLD)),
                      Num(HIGH_SUSPICION_THRESHOLD - MODERATE_SUSPICION_THRESHOLD))
         IN  RMul(progressInRange, Num(MODERATE_MAX_SCORE))

\* the local baseScore of calculateHighAccuracyScore, for a percentage above
\* MODERATE_SUSPICION_THRESHOLD
\* baseScore with the ramp above HIGH_SUSPICION_THRESHOLD starting from 0
baseScoreHighFromZero(highAccuracyPercentage) ==
    IF RGt(highAccuracyPercentage, Num(EXTREME_SUSPICION_THRESHOLD))
    THEN Num(HIGH_MAX_SCORE
             + MathFloor(RDiv(RSub(highAccuracyPercentage, Num(EXTREME_SUSPICION_THRESHOLD)),
                              Num(EXTREME_SCORE_STEP)))
               * EXTREME_SCORE_INCREMENT)
    ELSE IF RGt(highAccuracyPercentage, Num(HIGH_SUSPICION_THRESHOLD))
    THEN RMul(RDiv(RSub(highAccuracyPercentage, Num(HIGH_SUSPICION_THRESHOLD)),
                   Num(EXTREME_SUSPICION_THRESHOLD - HIGH_SUSPICION_THRESHOLD)),
              Num(MODERATE_MAX_SCORE))
    ELSE RMul(RDiv(RSub(highAccuracyPercentage, Num(MODERATE_SUSPICION_THRESHOLD)),
                   Num(HIGH_SUSPICION_THRESHOLD - MODERATE_SUSPICION_THRESHOLD)),
              Num(MODERATE_MAX_SCORE))

baseScore(highAccuracyPercentage) ==
    IF RGt(highAccuracyPercentage, Num(EXTREME_SUSPICION_THRESHOLD))
    THEN Num(HIGH_MAX_SCORE
             + MathFloor(RDiv(RSub(highAccuracyPercentage, Num(EXTREME_SUSPICION_THRESHOLD)),
                              Num(EXTREME_SCORE_STEP)))
               * EXTREME_SCORE_INCREMENT)
    ELSE IF RGt(highAccuracyPercentage, Num(HIGH_SUSPICION_THRESHOLD))
    THEN LET progressInRange ==
                 RDiv(RSub(highAccuracyPercentage, Num(HIGH_SUSPICION_THRESHOLD)),
                      Num(EXTREME_SUSPICION_THRESHOLD - HIGH_SUSPICION_THRESHOLD))
         IN  RAdd(Num(MODERATE_MAX_SCORE), RMul(progressInRange, Num(MODERATE_MAX_SCORE)))
    ELSE LET progressInRange ==
                 RDiv(RSub(highAccuracyPercentage, Num(MODERATE_SUSPICION_THRESHOLD)),
                      Num(HIGH_SUSPICION_THRESHOLD - MODERATE_SUSPICION_THRESHOLD))
         IN  RMul(progressInRange, Num(MODERATE_MAX_SCORE))

\* the return of calculateHighAccuracyScore for a percentage above
\* MODERATE_SUSPICION_THRESHOLD, w being the call of calculateWeight
accuracyScore(base, w) ==
    [ret |-> [score |-> RMul(base, w.ret),
              debug |-> [baseScore |-> base, sampleWeight |-> w.ret]],
     cache |-> w.cache]

\* playerRating is a parameter the function never reads
calculateHighAccuracyScore(cache, accuracyData, playerRating) ==
    IF accuracyData.gamesWithAccuracy = 0 \/ isNaN(accuracyData.highAccuracyPercentage)
    THEN [ret |-> [score |-> Num(0),
                   debug |-> [baseScore |-> Num(0), sampleWeight |-> Num(0),
                              reason |-> "no_accuracy_data"]],
          cache |-> cache]
    ELSE IF RLe(accuracyData.highAccuracyPercentage, Num(MODERATE_SUSPICION_THRESHOLD))
    THEN [ret |-> [score |-> Num(0),
                   debug |-> [baseScore |-> Num(0), sampleWeight |-> Num(0),
                              reason |-> "below_threshold"]],
          cache |-> cache]
    ELSE accuracyScore(baseScore(accuracyData.highAccuracyPercentage),
                       calculateWeight(cache, accuracyData.gamesWithAccuracy))

\* the weighted sum and the return of calculateFormatRiskScore, given its three
\* sub-scores: accuracyResult is the [score, debug] of calculateHighAccuracyScore
formatRiskResult(formatMetrics, debug, overallWinRateScore, recentWinRateScore, accuracyResult) ==
    LET weightedSum ==
            RAdd(RAdd(RMul(WEIGHTS_OVERALL_WINRATE, overallWinRateScore),
                      RMul(WEIGHTS_RECENT_WINRATE, recentWinRateScore)),
                 RMul(WEIGHTS_HIGH_ACCURACY, accuracyResult.score))
    IN  IF ~debug
        THEN weightedSum
        ELSE [score |-> weightedSum,
              debug |->
                [overallWinRate |->
                     [raw |-> formatMetrics.overallWinrate,
                      score |-> overallWinRateScore,
                      weight |-> WEIGHTS_OVERALL_WINRATE,
                      weighted |-> RMul(WEIGHTS_OVERALL_WINRATE, overallWinRateScore),
                      games |-> formatMetrics.gamesCounts.total],
                 recentWinRate |->
                     [raw |-> formatMetrics.recentGames.winrate,
                      score |-> recentWinRateScore,
                      weight |-> WEIGHTS_RECENT_WINRATE,
                      weighted |-> RMul(WEIGHTS_RECENT_WINRATE, recentWinRateScore),
                      games |-> formatMetrics.recentGames.total],
                 accuracy |->
                     [weight |-> WEIGHTS_HIGH_ACCURACY,
                      weighted |-> RMul(WEIGHTS_HIGH_ACCURACY, accuracyResult.score),
                      gamesWithAccuracy |-> formatMetrics.accuracy.gamesWithAccuracy,
                      highAccuracyGames |-> formatMetrics.accuracy.highAccuracyGames,
                      playerRating |-> formatMetrics.currentRating]
                     @@ accuracyResult.debug
                     @@ [raw |-> formatMetrics.accuracy.highAccuracyPercentage],
                 weightedSum |-> weightedSum]]

\* calculateFormatRiskScore from its third call on: accuracy is the call of
\* calculateHighAccuracyScore
scoreWithAccuracy(formatMetrics, debug, overallWinRateScore, recentWinRateScore, accuracy) ==
    [ret |-> formatRiskResult(formatMetrics, debug, overallWinRateScore,
                              recentWinRateScore, accuracy.ret),
     cache |-> accuracy.cache]

\* calculateFormatRiskScore from its second call on: recent is the call of
\* calculateWinRateScore for the recent games
scoreWithRecent(formatMetrics, debug, overallWinRateScore, recent) ==
    scoreWithAccuracy(formatMetrics, debug, overallWinRateScore, recent.ret,
        calculateHighAccuracyScore(recent.cache, formatMetrics.accuracy,
                                   formatMetrics.currentRating))

\* calculateFormatRiskScore from its first call on: overall is the call of
\* calculateWinRateScore for the lifetime games
scoreWithOverall(formatMetrics, debug, overall) ==
    scoreWithRecent(formatMetrics, debug, overall.ret,
        calculateWinRateScore(overall.cache,
                              RDiv(formatMetrics.recentGames.winrate, Num(100)),
                              formatMetrics.recentGames.total))

calculateFormatRiskScore(cache, formatMetrics, debug) ==
    scoreWithOverall(formatMetrics, debug,
        calculateWinRateScore(cache, RDiv(formatMetrics.overallWinrate, Num(100)),
                              formatMetrics.gamesCounts.total))

\* getRiskLevel with the upper boundaries exclusive
getRiskLevelExclusive(score) ==
    IF score < RISK_LEVELS.LOW.max THEN RISK_LEVELS.LOW
    ELSE IF score < RISK_LEVELS.MODERATE.max THEN RISK_LEVELS.MODERATE
    ELSE IF score < RISK_LEVELS.HIGH.max THEN RISK_LEVELS.HIGH
    ELSE RISK_LEVELS.VERY_HIGH

getRiskLevel(score) ==
    IF score <= RISK_LEVELS.LOW.max THEN RISK_LEVELS.LOW
    ELSE IF score <= RISK_LEVELS.MODERATE.max THEN RISK_LEVELS.MODERATE
    ELSE IF score <= RISK_LEVELS.HIGH.max THEN RISK_LEVELS.HIGH
    ELSE RISK_LEVELS.VERY_HIGH

\* null for maxScore.factors and formatScores[i].factors; a null format is "null"
NoFactors == [null |-> TRUE]

\* hasMinGames off by one: a format with exactly MIN_GAMES recent games is skipped too
hasMinGamesExclusive(formatMetrics) ==
    ~(formatMetrics.recentGames.total <= THRESHOLDS.MIN_GAMES)

\* hasMinGames reading the lifetime game count instead of the recent one
hasMinGamesLifetime(formatMetrics) ==
    ~(formatMetrics.gamesCounts.total < THRESHOLDS.MIN_GAMES)

\* the filter of the loop: a format with fewer recent games is skipped
hasMinGames(formatMetrics) ==
    ~(formatMetrics.recentGames.total < THRESHOLDS.MIN_GAMES)

\* finalFormatScore without the cap
finalFormatScoreUncapped(accountAgeFactor, rawScore) == RMul(accountAgeFactor, rawScore)

\* finalFormatScore with the cap applied before the account-age multiplier
finalFormatScoreCapFirst(accountAgeFactor, rawScore) ==
    RMul(accountAgeFactor, RMin(Num(100), rawScore))

\* the local finalFormatScore of the loop
finalFormatScore(accountAgeFactor, rawScore) ==
    RMin(Num(100), RMul(accountAgeFactor, rawScore))

\* the result returned when no format was scored
noRatedGames(accountAgeFactor, metrics) ==
    [maxScore |-> [value |-> 0, format |-> "null", factors |-> NoFactors,
                   reason |-> "no_rated_games"],
     otherFormats |-> <<>>,
     accountAgeScore |-> accountAgeFactor,
     accountAgeDays |-> metrics.accountAge,
     username |-> metrics.username]

\* the element pushed to formatScores: result is the return of
\* calculateFormatRiskScore
formatScore(format, accountAgeFactor, debug, result) ==
    LET rawScore == IF debug THEN result.score ELSE result
        final == finalFormatScore(accountAgeFactor, rawScore)
    IN  [format |-> format,
         score |-> final,
         factors |->
             IF debug
             THEN result.debug
                  @@ [accountAgeFactor |-> accountAgeFactor,
                      calculation |->
                          [weightedSum |-> rawScore,
                           accountAgeFactor |-> accountAgeFactor,
                           beforeCap |-> RMul(accountAgeFactor, rawScore),
                           afterCap |-> final]]
             ELSE NoFactors]

\* the for loop of calculateRiskScore over Object.entries(metrics.formats);
\* pushFormatScore is one iteration from the call of calculateFormatRiskScore on
RECURSIVE scoreFormats(_, _, _, _, _)
RECURSIVE pushFormatScore(_, _, _, _, _, _)
pushFormatScore(entries, accountAgeFactor, debug, formatScores, format, result) ==
    scoreFormats(result.cache, entries, accountAgeFactor, debug,
                 Append(formatScores,
                        formatScore(format, accountAgeFactor, debug, result.ret)))

scoreFormats(cache, entries, accountAgeFactor, debug, formatScores) ==
    IF entries = <<>>
    THEN [formatScores |-> formatScores, cache |-> cache]
    ELSE IF ~hasMinGames(Head(entries).stats)
    THEN scoreFormats(cache, Tail(entries), accountAgeFactor, debug, formatScores)
    ELSE pushFormatScore(Tail(entries), accountAgeFactor, debug, formatScores,
                         Head(entries).format,
                         calculateFormatRiskScore(cache, Head(entries).stats, debug))

\* insertByScore for the comparator (a, b) => a.score - b.score: ascending
RECURSIVE insertByScoreAscending(_, _)
insertByScoreAscending(sorted, x) ==
    IF sorted = <<>> THEN <<x>>
    ELSE IF RLt(x.score, Head(sorted).score)
         THEN <<x>> \o sorted
         ELSE <<Head(sorted)>> \o insertByScoreAscending(Tail(sorted), x)

\* insertByScore placing an element before the elements of equal score
RECURSIVE insertByScoreBeforeEqual(_, _)
insertByScoreBeforeEqual(sorted, x) ==
    IF sorted = <<>> THEN <<x>>
    ELSE IF RLe(Head(sorted).score, x.score)
         THEN <<x>> \o sorted
         ELSE <<Head(sorted)>> \o insertByScoreBeforeEqual(Tail(sorted), x)

\* Array.prototype.sort with (a, b) => b.score - a.score: descending and stable
RECURSIVE insertByScore(_, _)
insertByScore(sorted, x) ==
    IF sorted = <<>> THEN <<x>>
    ELSE IF RLt(Head(sorted).score, x.score)
         THEN <<x>> \o sorted
         ELSE <<Head(sorted)>> \o insertByScore(Tail(sorted), x)

RECURSIVE sortByScore(_)
sortByScore(formatScores) ==
    IF formatScores = <<>> THEN <<>>
    ELSE insertByScore(sortByScore(SubSeq(formatScores, 1, Len(formatScores) - 1)),
                       formatScores[Len(formatScores)])

\* calculateRiskScore after the sort: formatScores is the sorted array
highestFormat(accountAgeFactor, metrics, formatScores) ==
    [maxScore |-> [value |-> MathRound(formatScores[1].score),
                   format |-> formatScores[1].format,
                   factors |-> formatScores[1].factors],
     otherFormats |-> Tail(formatScores),
     accountAgeScore |-> accountAgeFactor,
     accountAgeDays |-> metrics.accountAge,
     username |-> metrics.username]

\* calculateRiskScore after the loop: loop is the [formatScores, cache] it leaves
selectMaxScore(accountAgeFactor, metrics, loop) ==
    IF Len(loop.formatScores) = 0
    THEN [ret |-> noRatedGames(accountAgeFactor, metrics),
          formatScores |-> loop.formatScores,
          cache |-> loop.cache]
    ELSE [ret |-> highestFormat(accountAgeFactor, metrics, sortByScore(loop.formatScores)),
          formatScores |-> sortByScore(loop.formatScores),
          cache |-> loop.cache]

\* returns [ret, cache]; formatScores is the local array at the return
calculateRiskScore(cache, metrics, debug) ==
    selectMaxScore(calculateAccountAgeFactor(metrics.accountAge), metrics,
        scoreFormats(cache, metrics.formats, calculateAccountAgeFactor(metrics.accountAge),
                     debug, <<>>))

(***************************************************************************)
(* metrics.js: calculateWinrate, used to build the FormatStats of inputs.  *)
(***************************************************************************)
\* calculateWinrate with the draws left out of the total
calculateWinrateDecided(record) ==
    LET total == record.wins + record.losses
    IN  IF total > 0 THEN RMul(RDiv(Num(record.wins), Num(total)), Num(100)) ELSE Num(0)

calculateWinrate(record) ==
    LET total == record.wins + record.losses + record.draws
    IN  IF total > 0 THEN RMul(RDiv(Num(record.wins), Num(total)), Num(100)) ELSE Num(0)

\* Math.floor((now - joinedDate) / 86400000); joinedTimestamp is in seconds and
\* time, the value of Date.now(), in milliseconds
calculateAccountAge(time, joinedTimestamp) ==
    (time - joinedTimestamp * 1000) \div (1000 * 60 * 60 * 24)

\* a game of the recent games: accuracy is <<>> when the game has none, <<a>>
\* when it is a
RecentGame(timeClass, playerRating, result, accuracy, rated) ==
    [timeClass |-> timeClass, playerRating |-> playerRating, result |-> result,
     accuracy |-> accuracy, rated |-> rated]

\* the filter that selects formatGames
isFormatGame(game, stats, userSettings) ==
    /\ game.timeClass = stats.timeClass
    /\ IF userSettings.RATED_ONLY THEN game.rated = TRUE ELSE TRUE

\* the reduce over formatGames: a result other than win, loss or draw counts nowhere
countRecentStats(formatGames) ==
    [wins   |-> Len(SelectSeq(formatGames, LAMBDA game : game.result = "win")),
     losses |-> Len(SelectSeq(formatGames, LAMBDA game : game.result = "loss")),
     draws  |-> Len(SelectSeq(formatGames, LAMBDA game : game.result = "draw"))]

\* game.accuracy != null
hasAccuracy(game) == game.accuracy # <<>>

\* isHighAccuracyGame with the required accuracy exclusive
isHighAccuracyGameExclusive(game) ==
    LET threshold == IF game.playerRating < ACCURACY_THRESHOLDS.LOW_RATING.threshold
                     THEN ACCURACY_THRESHOLDS.LOW_RATING.requiredAccuracy
                     ELSE ACCURACY_THRESHOLDS.HIGH_RATING.requiredAccuracy
    IN  game.accuracy[1] > threshold

\* the filter that selects highAccuracyGames, for a game with an accuracy
isHighAccuracyGame(game) ==
    LET threshold == IF game.playerRating < ACCURACY_THRESHOLDS.LOW_RATING.threshold
                     THEN ACCURACY_THRESHOLDS.LOW_RATING.requiredAccuracy
                     ELSE ACCURACY_THRESHOLDS.HIGH_RATING.requiredAccuracy
    IN  game.accuracy[1] >= threshold

\* the object calculateFormatMetrics returns, from the arrays it has filtered
formatMetricsOf(stats, recentStats, gamesWithAccuracy, highAccuracyGames) ==
    [currentRating |-> stats.rating,
     overallWinrate |-> calculateWinrate([wins |-> stats.wins, losses |-> stats.losses,
                                          draws |-> stats.draws]),
     gamesCounts |-> [total |-> stats.wins + stats.losses + stats.draws,
                      wins |-> stats.wins, losses |-> stats.losses, draws |-> stats.draws],
     recentGames |-> [total |-> recentStats.wins + recentStats.losses + recentStats.draws,
                      wins |-> recentStats.wins, losses |-> recentStats.losses,
                      draws |-> recentStats.draws,
                      winrate |-> calculateWinrate(recentStats)],
     accuracy |->
         IF Len(gamesWithAccuracy) = 0
         THEN [gamesWithAccuracy |-> 0, highAccuracyGames |-> 0,
               highAccuracyPercentage |-> Num(0)]
         ELSE [gamesWithAccuracy |-> Len(gamesWithAccuracy),
               highAccuracyGames |-> Len(highAccuracyGames),
               highAccuracyPercentage |->
                   IF Len(gamesWithAccuracy) > 0
                   THEN RMul(RDiv(Num(Len(highAccuracyGames)), Num(Len(gamesWithAccuracy))),
                             Num(100))
                   ELSE Num(0)]]

\* userSettings is DEFAULT_SETTINGS overridden by the settings read from storage
calculateFormatMetrics(stats, recentGames, userSettings) ==
    LET formatGames ==
            SelectSeq(recentGames, LAMBDA game : isFormatGame(game, stats, userSettings))
        gamesWithAccuracy == SelectSeq(formatGames, hasAccuracy)
    IN  formatMetricsOf(stats, countRecentStats(formatGames), gamesWithAccuracy,
                        SelectSeq(gamesWithAccuracy, isHighAccuracyGame))

\* format.replace('chess_', '') on the formats of GAME_FORMATS
timeClassOf(format) ==
    CASE format = "chess_rapid" -> "rapid"
      [] format = "chess_bullet" -> "bullet"
      [] format = "chess_blitz" -> "blitz"

\* playerData.stats maps the formats the player has stats for to {rating, wins,
\* losses, draws}.  The callbacks of Promise.all each await calculateFormatMetrics
\* and assign formatMetrics[format] when it resolves: completion lists those
\* formats in the order of the assignments, the key order of metrics.formats.
calculatePlayerMetrics(playerData, time, userSettings, completion) ==
    [accountAge |-> calculateAccountAge(time, playerData.profile.joined),
     formats |->
         [i \in DOMAIN completion |->
             [format |-> completion[i],
              stats |-> calculateFormatMetrics(
                            [timeClass |-> timeClassOf(completion[i])]
                                @@ playerData.stats[completion[i]],
                            playerData.recentGames, userSettings)]],
     username |-> playerData.profile.username]

\* one iteration of the for loop of validateMetrics: TRUE when the format passes
validFormatMetrics(formatMetrics) ==
    LET counts == formatMetrics.gamesCounts
        acc == formatMetrics.accuracy
    IN  /\ ~(RLt(formatMetrics.overallWinrate, Num(0))
             \/ RGt(formatMetrics.overallWinrate, Num(100)))
        /\ ~(counts.total # counts.wins + counts.losses + counts.draws)
        /\ ~(acc.highAccuracyGames > acc.gamesWithAccuracy)
        /\ ~(RLt(acc.highAccuracyPercentage, Num(0))
             \/ RGt(acc.highAccuracyPercentage, Num(100)))

\* !metrics.accountAge is true of 0; metrics.formats is the sequence of the
\* entries of the object
validateMetrics(metrics) ==
    IF metrics.accountAge = 0 \/ metrics.accountAge < 0 THEN FALSE
    ELSE IF Len(metrics.formats) = 0 THEN FALSE
    ELSE \A i \in DOMAIN metrics.formats : validFormatMetrics(metrics.formats[i].stats)

(***************************************************************************)
(* Inputs of the calls.                                                    *)
(***************************************************************************)
\* sample sizes: none, just below MIN_GAMES, MIN_GAMES, and MaxGames
SampleSizes == {0, MIN_GAMES - 1, MIN_GAMES, MaxGames}

\* percentages 0..100 in steps of 1/PctDen
Percentages == {Rat(k, PctDen) : k \in 0 .. (100 * PctDen)}

\* win rates 0..1, as calculateFormatRiskScore passes them
WinRates == {RDiv(p, Num(100)) : p \in Percentages}

AccountAges == (ACCOUNT_AGE_DAYS - AgeSpan) .. (ACCOUNT_AGE_DAYS + AgeSpan)

Scores == 0 .. 100

Usernames == {"opponent"}

Ratings == {1200}

GameRecord(wins, total) ==
    [total |-> total, wins |-> wins, losses |-> total - wins, draws |-> 0]

\* a FormatStats as calculateFormatMetrics builds it from a lifetime record, a
\* record of the recent games and the accuracy counts
FormatStats(rating, life, recent, gamesWithAccuracy, highAccuracyGames) ==
    [currentRating |-> rating,
     overallWinrate |-> calculateWinrate(life),
     gamesCounts |-> life,
     recentGames |-> [total |-> recent.total, wins |-> recent.wins,
                      losses |-> recent.losses, draws |-> recent.draws,
                      winrate |-> calculateWinrate(recent)],
     accuracy |-> [gamesWithAccuracy |-> gamesWithAccuracy,
                   highAccuracyGames |-> highAccuracyGames,
                   highAccuracyPercentage |->
                       IF gamesWithAccuracy > 0
                       THEN RMul(RDiv(Num(highAccuracyGames), Num(gamesWithAccuracy)), Num(100))
                       ELSE Num(0)]]

\* half, two thirds, four fifths and all of the games won
WinCounts(total) == {total \div 2, (2 * total + 1) \div 3, (4 * total) \div 5, total}

RecordsOf(totals) ==
    {GameRecord(x[1], x[2]) : x \in {y \in (0 .. MaxGames) \X totals : y[1] \in WinCounts(y[2])}}

LifeRecords == RecordsOf({MaxGames})

RecentRecords == RecordsOf(SampleSizes \ {0})

\* accuracy counts <<gamesWithAccuracy, highAccuracyGames>>
StatAccuracies == {<<0, 0>>, <<MIN_GAMES, 1>>, <<MIN_GAMES, MIN_GAMES>>}

\* the FormatStats of a player with a single format
FormatStatsSet ==
    {FormatStats(rating, life, recent, a[1], a[2]) :
        rating \in Ratings, life \in LifeRecords, recent \in RecentRecords, a \in StatAccuracies}

\* the FormatStats of a player with several formats, none with accuracy data:
\* every game won but too few recent games; a moderate win rate; a high win
\* rate; every game won
FewFormatStats ==
    {FormatStats(rating, x[1], x[2], 0, 0) :
        rating \in Ratings,
        x \in {<<GameRecord(MaxGames, MaxGames), GameRecord(MIN_GAMES - 1, MIN_GAMES - 1)>>,
               <<GameRecord((2 * MaxGames + 1) \div 3, MaxGames),
                 GameRecord((2 * MIN_GAMES + 1) \div 3, MIN_GAMES)>>,
               <<GameRecord((4 * MaxGames) \div 5, MaxGames),
                 GameRecord((4 * MIN_GAMES) \div 5, MIN_GAMES)>>,
               <<GameRecord(MaxGames, MaxGames), GameRecord(MaxGames, MaxGames)>>}}

FormatNames == {GAME_FORMATS[i] : i \in DOMAIN GAME_FORMATS}

\* the entries of metrics.formats in key order: distinct formats, in any order
FormatEntries ==
    {<<>>}
    \cup {<<[format |-> f, stats |-> s]>> : f \in FormatNames, s \in FormatStatsSet}
    \cup {<<[format |-> f[1], stats |-> s[1]], [format |-> f[2], stats |-> s[2]]>> :
              f \in {g \in FormatNames \X FormatNames : g[1] # g[2]},
              s \in FewFormatStats \X FewFormatStats}
    \cup {<<[format |-> f[1], stats |-> s[1]], [format |-> f[2], stats |-> s[2]],
            [format |-> f[3], stats |-> s[3]]>> :
              f \in {g \in FormatNames \X FormatNames \X FormatNames :
                         g[1] # g[2] /\ g[1] # g[3] /\ g[2] # g[3]},
              s \in FewFormatStats \X FewFormatStats \X FewFormatStats}

\* an account young enough for the multiplier, and one just too old
RiskAccountAges == {ACCOUNT_AGE_DAYS \div 2, ACCOUNT_AGE_DAYS + 1}

PlayerMetrics ==
    {[accountAge |-> a, formats |-> e, username |-> u] :
        a \in RiskAccountAges, e \in FormatEntries, u \in Usernames}

(***************************************************************************)
(* The state machine: the module-level weightCache, and one call of an     *)
(* exported function at a time (the functions are synchronous).  call      *)
(* records the arguments and the return value of the call that has just    *)
(* returned.                                                               *)
(***************************************************************************)
NoCall == [op |-> "none"]

\* the time the background script starts: 20 days after the players of the
\* model joined
StartTime == 20 * 24 * 60 * 60 * 1000

\* null, for currentOpponentData and for the return of getCachedAnalysis
NoData == [null |-> TRUE]

\* null, where the other values are usernames: lastOpponent, and the return of
\* extractOpponentUsername
NoUsername == "null"

\* the message handlers of the model: one message is in flight at a time.  The
\* writes of opponentHistory and analysisCache are made between two awaits, so a
\* second handler could interleave only at the steps the model already separates
InFlight == {1}

\* a handler that is not running
Idle == [pc |-> "idle"]

Init ==
    /\ weightCache = << >>
    /\ pc = "idle"
    /\ call = NoCall
    /\ THRESHOLDS = DEFAULT_THRESHOLDS
    /\ now = StartTime
    /\ currentOpponentData = NoData
    /\ opponentHistory = <<>>
    /\ analysisCache = << >>
    /\ storage = << >>
    /\ handlers = [id \in InFlight |-> Idle]
    /\ apiCache = << >>
    /\ lastOpponent = NoUsername
    /\ badgeElement = NoData
    /\ document = NoUsername
    /\ pending = {}

\* a call returns: the cache it leaves, and the record of the call with what it
\* returned
Returns(args, r) ==
    /\ weightCache' = r.cache
    /\ call' = args @@ [k \in DOMAIN r \ {"cache"} |-> r[k]]
    /\ pc' = "done"
    /\ UNCHANGED <<THRESHOLDS, backgroundVars, utilsVars, contentVars>>

CallCalculateWeight(n) ==
    /\ pc = "idle"
    /\ Returns([op |-> "calculateWeight", n |-> n], calculateWeight(weightCache, n))

CallCalculateAccountAgeFactor(accountAgeDays) ==
    /\ pc = "idle"
    /\ Returns([op |-> "calculateAccountAgeFactor", accountAgeDays |-> accountAgeDays],
               [ret |-> calculateAccountAgeFactor(accountAgeDays), cache |-> weightCache])

CallCalculateWinRateScore(winRate, totalGames) ==
    /\ pc = "idle"
    /\ Returns([op |-> "calculateWinRateScore", winRate |-> winRate,
                totalGames |-> totalGames],
               calculateWinRateScore(weightCache, winRate, totalGames))

CallCalculateHighAccuracyScore(accuracyData, playerRating) ==
    /\ pc = "idle"
    /\ Returns([op |-> "calculateHighAccuracyScore", accuracyData |-> accuracyData,
                playerRating |-> playerRating],
               calculateHighAccuracyScore(weightCache, accuracyData, playerRating))

CallCalculateFormatRiskScore(formatMetrics, debug) ==
    /\ pc = "idle"
    /\ Returns([op |-> "calculateFormatRiskScore", formatMetrics |-> formatMetrics,
                debug |-> debug],
               calculateFormatRiskScore(weightCache, formatMetrics, debug))

CallCalculateRiskScore(metrics, debug) ==
    /\ pc = "idle"
    /\ Returns([op |-> "calculateRiskScore", metrics |-> metrics, debug |-> debug],
               calculateRiskScore(weightCache, metrics, debug))

CallGetRiskLevel(score) ==
    /\ pc = "idle"
    /\ Returns([op |-> "getRiskLevel", score |-> score],
               [ret |-> getRiskLevel(score), cache |-> weightCache])

\* the caller takes the return value
Return ==
    /\ pc = "done"
    /\ pc' = "idle"
    /\ call' = NoCall
    /\ UNCHANGED <<weightCache, THRESHOLDS, backgroundVars, utilsVars, contentVars>>

Next ==
    \/ \E n \in SampleSizes : CallCalculateWeight(n)
    \/ \E d \in AccountAges : CallCalculateAccountAgeFactor(d)
    \/ \E w \in WinRates, n \in SampleSizes : CallCalculateWinRateScore(w, n)
    \/ \E g \in SampleSizes, p \in Percentages \cup {NaN}, r \in Ratings :
           CallCalculateHighAccuracyScore(
               [gamesWithAccuracy |-> g, highAccuracyPercentage |-> p], r)
    \/ \E f \in FormatStatsSet, debug \in BOOLEAN : CallCalculateFormatRiskScore(f, debug)
    \/ \E m \in PlayerMetrics, debug \in BOOLEAN : CallCalculateRiskScore(m, debug)
    \/ \E s \in Scores : CallGetRiskLevel(s)
    \/ Return

Spec == Init /\ [][Next]_vars

(***************************************************************************)
(* calculateWeight with a caller that assigns THRESHOLDS.WEIGHTING_K       *)
(* between the calls: the object is exported by config.js and is not       *)
(* frozen.                                                                 *)
(***************************************************************************)
\* the values a caller configures: half the default, and the default
WeightingKs == {WEIGHTING_K \div 2, WEIGHTING_K}

SetWeightingK(k) ==
    /\ pc = "idle"
    /\ THRESHOLDS' = [THRESHOLDS EXCEPT !.WEIGHTING_K = k]
    /\ UNCHANGED <<weightCache, pc, call, backgroundVars, utilsVars, contentVars>>

NextWeightingK ==
    \/ \E k \in WeightingKs : SetWeightingK(k)
    \/ \E n \in SampleSizes : CallCalculateWeight(n)
    \/ Return

SpecWeightingK == Init /\ [][NextWeightingK]_vars

(***************************************************************************)
(* utils.js: the data of a player gathered from the remote API.  A settled  *)
(* promise is Fulfilled(value) or Rejected(message).  The end_time of a     *)
(* game is left out.                                                        *)
(***************************************************************************)
Fulfilled(value) == [fulfilled |-> TRUE, value |-> value]

Rejected(message) == [fulfilled |-> FALSE, message |-> message]

GAME_RESULTS ==
    ("win" :> "win")
    @@ ("agreed" :> "draw") @@ ("repetition" :> "draw") @@ ("stalemate" :> "draw")
    @@ ("insufficient" :> "draw") @@ ("50move" :> "draw")
    @@ ("timevsinsufficient" :> "draw")
    @@ ("checkmated" :> "loss") @@ ("timeout" :> "loss") @@ ("resigned" :> "loss")
    @@ ("lose" :> "loss") @@ ("abandoned" :> "loss")

\* String.prototype.toLowerCase, on the usernames of the model
toLowerCase(string) ==
    CASE string = "Ann" -> "ann"
      [] string = "ANN" -> "ann"
      [] string = "Bob" -> "bob"
      [] OTHER -> string

\* fetchPlayerProfile: settled is how fetchWithRetry settles, a response being
\* [ok, json]; the json of a profile has joined (<<>> when it is not a number)
\* and username
fetchPlayerProfile(settled) ==
    IF ~settled.fulfilled THEN settled
    ELSE IF ~settled.value.ok THEN Rejected("Failed to fetch player profile")
    ELSE IF settled.value.json.joined = <<>> THEN Rejected("Invalid profile data structure")
    ELSE Fulfilled([joined |-> settled.value.json.joined[1],
                    username |-> settled.value.json.username])

\* fetchPlayerStats: the json maps the formats the player has played to
\* [rating, wins, losses, draws] (the values of last.rating and record, 0 for a
\* missing one); formats other than GAME_FORMATS are dropped
fetchPlayerStats(settled) ==
    IF ~settled.fulfilled THEN settled
    ELSE IF ~settled.value.ok THEN Rejected("Failed to fetch player stats")
    ELSE Fulfilled([format \in DOMAIN settled.value.json
                               \cap {GAME_FORMATS[i] : i \in DOMAIN GAME_FORMATS} |->
                       settled.value.json[format]])

\* the .then(response => response.json()).catch(() => ({ games: [] })) of a
\* monthly archive
archiveResponse(settled) ==
    IF settled.fulfilled THEN settled.value.json ELSE [games |-> <<>>]

\* the filter of fetchRecentGames on the games of the archives
isChessGame(game, userSettings) ==
    /\ game.rules = "chess"
    /\ game.time_class \in {"rapid", "bullet", "blitz"}
    /\ IF userSettings.RATED_ONLY THEN game.rated = TRUE ELSE TRUE

\* the map of fetchRecentGames; accuracies is <<>> or <<[white, black]>>
recentGameOf(game, username) ==
    LET playerColor == IF toLowerCase(game.white.username) = toLowerCase(username)
                       THEN "white" ELSE "black"
        rawResult == game[playerColor].result
    IN  [timeClass |-> game.time_class,
         playerColor |-> playerColor,
         playerRating |-> game[playerColor].rating,
         result |-> IF rawResult \in DOMAIN GAME_RESULTS
                    THEN GAME_RESULTS[rawResult] ELSE "unknown",
         accuracy |-> IF game.accuracies = <<>> THEN <<>>
                      ELSE <<game.accuracies[1][playerColor]>>,
         rated |-> game.rated]

RECURSIVE flatMapGames(_)
flatMapGames(responses) ==
    IF responses = <<>> THEN <<>>
    ELSE Head(responses).games \o flatMapGames(Tail(responses))

\* fetchRecentGames: archives is how the fetchWithRetry of each month of
\* monthsToFetch settles; a rejected one counts as an archive without games
fetchRecentGames(username, archives, userSettings) ==
    LET responses == [i \in DOMAIN archives |-> archiveResponse(archives[i])]
        games == SelectSeq(flatMapGames(responses),
                           LAMBDA game : isChessGame(game, userSettings))
        mapped == [i \in DOMAIN games |-> recentGameOf(games[i], username)]
    IN  Fulfilled(SelectSeq(mapped, LAMBDA game : game.result # "unknown"))

\* gatherPlayerData: Promise.all rejects when one of the three rejects (with the
\* message of the first of them in the array)
gatherPlayerData(profile, stats, recentGames) ==
    IF ~profile.fulfilled THEN profile
    ELSE IF ~stats.fulfilled THEN stats
    ELSE IF ~recentGames.fulfilled THEN recentGames
    ELSE Fulfilled([profile |-> profile.value, stats |-> stats.value,
                    recentGames |-> recentGames.value])

(***************************************************************************)
(* background.js.  updateBadge only sets the badge of the browser action   *)
(* and is left out.                                                        *)
(***************************************************************************)
ANALYSIS_CACHE_TTL_MS == 5 * 60 * 1000

\* getCachedAnalysis without the test of the age of the entry
getCachedAnalysisNoExpiry(cache, time, username) ==
    LET key == toLowerCase(username)
    IN  IF key \notin DOMAIN cache
        THEN [ret |-> NoData, analysisCache |-> cache]
        ELSE [ret |-> cache[key].data, analysisCache |-> cache]

\* returns [ret, analysisCache]: an expired entry is deleted
getCachedAnalysis(cache, time, username) ==
    LET key == toLowerCase(username)
    IN  IF key \notin DOMAIN cache
        THEN [ret |-> NoData, analysisCache |-> cache]
        ELSE IF time - cache[key].timestamp > ANALYSIS_CACHE_TTL_MS
        THEN [ret |-> NoData,
              analysisCache |-> [k \in DOMAIN cache \ {key} |-> cache[k]]]
        ELSE [ret |-> cache[key].data, analysisCache |-> cache]

setCachedAnalysis(cache, time, username, data) ==
    (toLowerCase(username) :> [data |-> data, timestamp |-> time]) @@ cache

\* opponentHistory.findIndex(h => h.username.toLowerCase() === ...): 0 for -1
existingIndexOf(history, username) ==
    LET found == {i \in DOMAIN history :
                      toLowerCase(history[i].username) = toLowerCase(username)}
    IN  IF found = {} THEN 0 ELSE CHOOSE i \in found : \A j \in found : i <= j

historyEntryOf(opponentData) ==
    [username |-> opponentData.username,
     score |-> opponentData.maxScore.value,
     format |-> opponentData.maxScore.format,
     riskLevel |-> opponentData.riskLevel,
     analyzedAt |-> opponentData.analyzedAt]

\* addToHistory without the search for an existing entry
addToHistoryAlwaysNew(history, opponentData) ==
    SubSeq(<<historyEntryOf(opponentData)>> \o history, 1,
           IF Len(history) + 1 > HistoryLimit THEN HistoryLimit ELSE Len(history) + 1)

\* addToHistory up to its await: the new value of opponentHistory
addToHistory(history, opponentData) ==
    IF existingIndexOf(history, opponentData.username) > 0
    THEN [history EXCEPT ![existingIndexOf(history, opponentData.username)] =
              historyEntryOf(opponentData)]
    ELSE IF Len(history) + 1 > HistoryLimit
    THEN SubSeq(<<historyEntryOf(opponentData)>> \o history, 1, HistoryLimit)
    ELSE <<historyEntryOf(opponentData)>> \o history

\* DEFAULT_SETTINGS overridden by the settings in storage
userSettingsOf(stored) ==
    IF "settings" \in DOMAIN stored
    THEN [k \in DOMAIN DEFAULT_SETTINGS |->
             IF k \in DOMAIN stored.settings THEN stored.settings[k] ELSE DEFAULT_SETTINGS[k]]
    ELSE DEFAULT_SETTINGS

\* currentOpponentData as analyzeOpponent builds it from the result of
\* calculateRiskScoreFromUsername; analyzedAt is the time, not its ISO string
opponentDataOf(result, time) ==
    result @@ [riskLevel |-> getRiskLevel(result.maxScore.value), analyzedAt |-> time]

(***************************************************************************)
(* The remote API, as the model answers it.  Every player joined at time 0 *)
(* and has the same blitz record and the same games in the archive of the  *)
(* current month; the archive of the previous month has no games.          *)
(***************************************************************************)
\* the usernames of the analyzeOpponent messages; "" is a missing username
RequestUsernames == {"", "Ann", "ann", "bob"}

\* the usernames that name the same player
SameUser(username) ==
    {u \in {"Ann", "ann", "bob", "cy"} : toLowerCase(u) = toLowerCase(username)}

RawGame(white, whiteResult, black, blackResult, rules, rated) ==
    [rules |-> rules, time_class |-> "blitz", rated |-> rated,
     white |-> [username |-> white, result |-> whiteResult, rating |-> 1200],
     black |-> [username |-> black, result |-> blackResult, rating |-> 1250],
     accuracies |-> <<>>]

\* four rated wins and a rated loss, and three games fetchRecentGames drops: an
\* unrated one, one of another variant, one with a result code it does not know
RemoteGames(username) ==
    <<RawGame(username, "win", "rival", "checkmated", "chess", TRUE),
      RawGame("rival", "resigned", username, "win", "chess", TRUE),
      RawGame(username, "win", "rival", "timeout", "chess", TRUE),
      RawGame("rival", "win", username, "resigned", "chess", TRUE),
      RawGame(username, "win", "rival", "abandoned", "chess", TRUE),
      RawGame(username, "win", "rival", "resigned", "chess", FALSE),
      RawGame(username, "win", "rival", "resigned", "chess960", TRUE),
      RawGame(username, "kingofthehill", "rival", "win", "chess", TRUE)>>

\* how the fetch of the profile settles
ProfileFetches(username) ==
    {Rejected("Retryable error: 500"), Fulfilled([ok |-> FALSE]),
     Fulfilled([ok |-> TRUE, json |-> [joined |-> <<>>, username |-> username]])}
    \cup {Fulfilled([ok |-> TRUE, json |-> [joined |-> <<0>>, username |-> u]]) :
              u \in SameUser(username)}

\* how the fetch of the stats settles
StatsFetches ==
    {Rejected("Failed to fetch"), Fulfilled([ok |-> FALSE]),
     Fulfilled([ok |-> TRUE,
                json |-> ("chess_blitz" :> [rating |-> 1200, wins |-> 16,
                                            losses |-> 4, draws |-> 0])
                         @@ ("chess_daily" :> [rating |-> 1300, wins |-> 1,
                                               losses |-> 0, draws |-> 0])])}

\* how the fetches of monthsToFetch settle: the current month, or the previous
\* month and the current one when the day of the month is below 15
ArchiveFetches(username) ==
    LET current == {Rejected("Retryable error: 429"),
                    Fulfilled([json |-> [games |-> RemoteGames(username)]])}
        previous == {Rejected("Failed to fetch"), Fulfilled([json |-> [games |-> <<>>]])}
    IN  {<<c>> : c \in current} \cup {<<q, c>> : q \in previous, c \in current}

\* the orders in which the elements of a set can be listed
Orders(S) ==
    {f \in [1 .. Cardinality(S) -> S] : \A i, j \in 1 .. Cardinality(S) : f[i] = f[j] => i = j}

(***************************************************************************)
(* The background script as a state machine.  A handler of handleMessage   *)
(* runs up to its next await in one step; handlers[id] holds where it is,  *)
(* then the response it passes to sendResponse.  Of the messages,          *)
(* analyzeOpponent and clearHistory are modelled.  In a response, gathered *)
(* tells whether the handler fetched the data of the player and failed     *)
(* names the fetches that did not return the data.                         *)
(***************************************************************************)
Responding(action, username, response, gathered, failed) ==
    [pc |-> "respond", action |-> action, username |-> username,
     response |-> response, gathered |-> gathered, failed |-> failed]

\* the fetches that were rejected or whose response was not ok
failedFetches(profile, stats, archives) ==
    (IF profile.fulfilled /\ profile.value.ok THEN {} ELSE {"profile"})
    \cup (IF stats.fulfilled /\ stats.value.ok THEN {} ELSE {"stats"})
    \cup {"games" : i \in {j \in DOMAIN archives : ~archives[j].fulfilled}}

\* what analyzeOpponent may write, as it is when the message arrives; a handler
\* keeps it in its field before, which the code does not have
Snapshot ==
    [currentOpponentData |-> currentOpponentData, analysisCache |-> analysisCache,
     opponentHistory |-> opponentHistory]

\* analyzeOpponent from the return of getCachedAnalysis to its first await
CachedOrGather(id, username, cached) ==
    /\ analysisCache' = cached.analysisCache
    /\ IF cached.ret # NoData
       THEN /\ currentOpponentData' = cached.ret
            /\ handlers' = [handlers EXCEPT ![id] =
                   Responding("analyzeOpponent", username, cached.ret, FALSE, {})]
       ELSE /\ UNCHANGED currentOpponentData
            /\ handlers' = [handlers EXCEPT ![id] =
                   [pc |-> "gathering", username |-> username, before |-> Snapshot]]

\* an analyzeOpponent message arrives
AnalyzeOpponent(id, username) ==
    /\ handlers[id] = Idle
    /\ IF username = ""
       THEN /\ handlers' = [handlers EXCEPT ![id] =
                   Responding("analyzeOpponent", username,
                              [error |-> "No username provided"], FALSE, {})
                   @@ [before |-> Snapshot]]
            /\ UNCHANGED <<currentOpponentData, analysisCache>>
       ELSE CachedOrGather(id, username, getCachedAnalysis(analysisCache, now, username))
    /\ UNCHANGED <<engineVars, utilsVars, contentVars, now, opponentHistory, storage>>

\* analyzeOpponent from the return of calculateRiskScore (scored is its
\* [ret, cache]) to the await of addToHistory
RecordAnalysis(id, username, failed, scored) ==
    /\ weightCache' = scored.cache
    /\ currentOpponentData' = opponentDataOf(scored.ret, now)
    /\ analysisCache' =
           setCachedAnalysis(analysisCache, now, username, opponentDataOf(scored.ret, now))
    /\ opponentHistory' = addToHistory(opponentHistory, opponentDataOf(scored.ret, now))
    /\ handlers' = [handlers EXCEPT ![id] =
           [pc |-> "saving", username |-> username, failed |-> failed,
            before |-> handlers[id].before,
            data |-> opponentDataOf(scored.ret, now),
            value |-> addToHistory(opponentHistory, opponentDataOf(scored.ret, now))]]

\* calculateRiskScoreFromUsername from gatherPlayerData on: playerData is how
\* gatherPlayerData settles
ScorePlayerData(id, username, failed, playerData) ==
    IF ~playerData.fulfilled
    THEN /\ handlers' = [handlers EXCEPT ![id] =
                Responding("analyzeOpponent", username,
                           [error |-> playerData.message], TRUE, failed)
                @@ [before |-> handlers[id].before]]
         /\ UNCHANGED <<weightCache, currentOpponentData, analysisCache, opponentHistory>>
    ELSE \E completion \in Orders(DOMAIN playerData.value.stats) :
             RecordAnalysis(id, username, failed,
                 calculateRiskScore(weightCache,
                     calculatePlayerMetrics(playerData.value, now,
                                            userSettingsOf(storage), completion),
                     TRUE))

\* the fetches of gatherPlayerData settle: analyzeOpponent runs to its response
\* or to the await of addToHistory
GatherPlayerData(id, profile, stats, archives) ==
    /\ handlers[id].pc = "gathering"
    /\ ScorePlayerData(id, handlers[id].username, failedFetches(profile, stats, archives),
           gatherPlayerData(fetchPlayerProfile(profile), fetchPlayerStats(stats),
               fetchRecentGames(handlers[id].username, archives, userSettingsOf(storage))))
    /\ UNCHANGED <<pc, call, THRESHOLDS, utilsVars, contentVars, now, storage>>

\* browser.storage.local.set of addToHistory settles: written tells whether the
\* write succeeded
HistorySaved(id, written) ==
    /\ handlers[id].pc = "saving"
    /\ IF written
       THEN /\ storage' = ("opponentHistory" :> handlers[id].value) @@ storage
            /\ handlers' = [handlers EXCEPT ![id] =
                   Responding("analyzeOpponent", handlers[id].username, handlers[id].data,
                              TRUE, handlers[id].failed)]
       ELSE /\ UNCHANGED storage
            /\ handlers' = [handlers EXCEPT ![id] =
                   Responding("analyzeOpponent", handlers[id].username,
                              [error |-> "storage.local.set failed"],
                              TRUE, handlers[id].failed)
                   @@ [before |-> handlers[id].before]]
    /\ UNCHANGED <<engineVars, utilsVars, contentVars, now, currentOpponentData,
                   opponentHistory, analysisCache>>

\* a clearHistory message arrives
ClearHistory(id) ==
    /\ handlers[id] = Idle
    /\ opponentHistory' = <<>>
    /\ handlers' = [handlers EXCEPT ![id] = [pc |-> "clearing"]]
    /\ UNCHANGED <<engineVars, utilsVars, contentVars, now, currentOpponentData,
                   analysisCache, storage>>

\* browser.storage.local.set of clearHistory settles
HistoryCleared(id, written) ==
    /\ handlers[id].pc = "clearing"
    /\ IF written
       THEN /\ storage' = ("opponentHistory" :> <<>>) @@ storage
            /\ handlers' = [handlers EXCEPT ![id] =
                   Responding("clearHistory", "", [success |-> TRUE], FALSE, {})]
       ELSE /\ UNCHANGED storage
            /\ handlers' = [handlers EXCEPT ![id] =
                   Responding("clearHistory", "", [error |-> "storage.local.set failed"],
                              FALSE, {})]
    /\ UNCHANGED <<engineVars, utilsVars, contentVars, now, currentOpponentData,
                   opponentHistory, analysisCache>>

\* .then(sendResponse): the handler is done
SendResponse(id) ==
    /\ handlers[id].pc = "respond"
    /\ handlers' = [handlers EXCEPT ![id] = Idle]
    /\ UNCHANGED <<engineVars, utilsVars, contentVars, now, currentOpponentData,
                   opponentHistory, analysisCache,
                   storage>>

\* time passes: the TTL of the cache, or one millisecond more
Tick(elapsed) ==
    /\ now + elapsed <= StartTime + MaxTicks * (ANALYSIS_CACHE_TTL_MS + 1)
    /\ now' = now + elapsed
    /\ UNCHANGED <<engineVars, utilsVars, contentVars, currentOpponentData,
                   opponentHistory, analysisCache,
                   storage, handlers>>

\* the handlers that await gatherPlayerData
Gathering == {id \in InFlight : handlers[id].pc = "gathering"}

NextBackground ==
    \/ \E id \in InFlight, username \in RequestUsernames : AnalyzeOpponent(id, username)
    \/ \E id \in Gathering :
           \E profile \in ProfileFetches(handlers[id].username), stats \in StatsFetches,
              archives \in ArchiveFetches(handlers[id].username) :
                  GatherPlayerData(id, profile, stats, archives)
    \/ \E id \in InFlight, written \in BOOLEAN : HistorySaved(id, written)
    \/ \E id \in InFlight : ClearHistory(id)
    \/ \E id \in InFlight, written \in BOOLEAN : HistoryCleared(id, written)
    \/ \E id \in InFlight : SendResponse(id)
    \/ \E elapsed \in {ANALYSIS_CACHE_TTL_MS, ANALYSIS_CACHE_TTL_MS + 1} : Tick(elapsed)

SpecBackground == Init /\ [][NextBackground]_vars

\* the background script with the scheduling the code can rely on: a write to
\* browser.storage.local settles and a response that is ready is sent.  The
\* fetches of gatherPlayerData settle when the remote server answers: no timer
\* and no AbortController of the code ends a fetch that is not answered.
SpecTimeouts ==
    /\ Init /\ [][NextBackground]_vars
    /\ WF_vars(\E id \in InFlight, written \in BOOLEAN : HistorySaved(id, written))
    /\ WF_vars(\E id \in InFlight, written \in BOOLEAN : HistoryCleared(id, written))
    /\ WF_vars(\E id \in InFlight : SendResponse(id))

(***************************************************************************)
(* The background script analysing more players than opponentHistory       *)
(* keeps, with a remote API that answers every fetch of the games and      *)
(* fails the others only by rejecting the stats.                           *)
(***************************************************************************)
\* three players, one of them under two spellings of the username
HistoryUsernames == {"Ann", "ann", "bob", "cy"}

NextHistory ==
    \/ \E id \in InFlight, username \in HistoryUsernames : AnalyzeOpponent(id, username)
    \/ \E id \in Gathering :
           \E profile \in {p \in ProfileFetches(handlers[id].username) :
                               p.fulfilled /\ p.value.ok /\ p.value.json.joined # <<>>},
              stats \in {s \in StatsFetches : s.fulfilled => s.value.ok},
              archives \in {a \in ArchiveFetches(handlers[id].username) :
                                Len(a) = 1 /\ a[1].fulfilled} :
                  GatherPlayerData(id, profile, stats, archives)
    \/ \E id \in InFlight, written \in BOOLEAN : HistorySaved(id, written)
    \/ \E id \in InFlight : ClearHistory(id)
    \/ \E id \in InFlight, written \in BOOLEAN : HistoryCleared(id, written)
    \/ \E id \in InFlight : SendResponse(id)
    \/ \E elapsed \in {ANALYSIS_CACHE_TTL_MS + 1} : Tick(elapsed)

SpecHistory == Init /\ [][NextHistory]_vars

(***************************************************************************)
(* metrics.js and calculateRiskScore called by a caller that builds the    *)
(* arguments itself: the functions are exported on window.ChessAntiCheat.  *)
(***************************************************************************)
\* the stats of the blitz format as calculatePlayerMetrics passes them
LifetimeStats ==
    {[timeClass |-> "blitz", rating |-> r, wins |-> w, losses |-> l, draws |-> d] :
        r \in Ratings, w \in 0 .. MaxCount, l \in 0 .. MaxCount, d \in 0 .. MaxCount}

\* recent games, at the boundaries of ACCURACY_THRESHOLDS: blitz games won
\* just below the rating threshold with the accuracy required there, won at the
\* rating threshold with an accuracy just short of the one required there, lost
\* without accuracy, drawn just short of the lower accuracy, won unrated at the
\* rating threshold with the accuracy required there, and a rapid game
SomeRecentGames ==
    {RecentGame("blitz", ACCURACY_THRESHOLDS.LOW_RATING.threshold - 1, "win",
                <<ACCURACY_THRESHOLDS.LOW_RATING.requiredAccuracy>>, TRUE),
     RecentGame("blitz", ACCURACY_THRESHOLDS.HIGH_RATING.threshold, "win",
                <<ACCURACY_THRESHOLDS.HIGH_RATING.requiredAccuracy - 1>>, TRUE),
     RecentGame("blitz", 1200, "loss", <<>>, TRUE),
     RecentGame("blitz", 1200, "draw",
                <<ACCURACY_THRESHOLDS.LOW_RATING.requiredAccuracy - 1>>, TRUE),
     RecentGame("blitz", ACCURACY_THRESHOLDS.HIGH_RATING.threshold, "win",
                <<ACCURACY_THRESHOLDS.HIGH_RATING.requiredAccuracy>>, FALSE),
     RecentGame("rapid", 1200, "win", <<95>>, TRUE)}

RecentGameLists == UNION {[1 .. n -> SomeRecentGames] : n \in 0 .. MaxRecentGames}

\* FormatStats a caller builds: the win rate, the total and the accuracy fields
\* are what the caller says they are
ExternalFormatStats ==
    {[currentRating |-> r,
      overallWinrate |-> p,
      gamesCounts |-> [total |-> t, wins |-> (4 * MaxGames) \div 5,
                       losses |-> MaxGames - (4 * MaxGames) \div 5, draws |-> 0],
      recentGames |-> [total |-> MaxGames, wins |-> (4 * MaxGames) \div 5,
                       losses |-> MaxGames - (4 * MaxGames) \div 5, draws |-> 0,
                       winrate |-> Num(80)],
      accuracy |-> [gamesWithAccuracy |-> a[1], highAccuracyGames |-> a[2],
                    highAccuracyPercentage |-> q]] :
        r \in Ratings,
        p \in {Num(0 - 1), Num(0), Num(80), Num(100), Num(101)},
        t \in {MaxGames - 1, MaxGames},
        a \in {<<0, 0>>, <<MIN_GAMES, MIN_GAMES>>, <<MIN_GAMES, MIN_GAMES + 1>>},
        q \in {Num(0 - 1), Num(0), Num(100), Num(101)}}

\* PlayerMetrics a caller builds: one format, an account age that is negative,
\* zero or positive
ExternalMetrics ==
    {[accountAge |-> a, formats |-> e, username |-> u] :
        a \in {0 - 1, 0, 1, ACCOUNT_AGE_DAYS \div 2},
        e \in {<<[format |-> "chess_blitz", stats |-> f]>> : f \in ExternalFormatStats},
        u \in Usernames}

CallValidateMetrics(metrics) ==
    /\ pc = "idle"
    /\ Returns([op |-> "validateMetrics", metrics |-> metrics],
               [ret |-> validateMetrics(metrics), cache |-> weightCache])

CallCalculateFormatMetrics(stats, recentGames, userSettings) ==
    /\ pc = "idle"
    /\ Returns([op |-> "calculateFormatMetrics", stats |-> stats,
                recentGames |-> recentGames, userSettings |-> userSettings],
               [ret |-> calculateFormatMetrics(stats, recentGames, userSettings),
                cache |-> weightCache])

\* a caller that validates and scores the PlayerMetrics it has built
NextMetrics ==
    \/ \E m \in ExternalMetrics : CallValidateMetrics(m)
    \/ \E m \in ExternalMetrics, debug \in BOOLEAN : CallCalculateRiskScore(m, debug)
    \/ Return

SpecMetrics == Init /\ [][NextMetrics]_vars

\* a caller of calculateFormatMetrics, the settings in storage being either
NextFormatMetrics ==
    \/ \E stats \in LifetimeStats, recentGames \in RecentGameLists, ratedOnly \in BOOLEAN :
           CallCalculateFormatMetrics(stats, recentGames, [RATED_ONLY |-> ratedOnly])
    \/ Return

SpecFormatMetrics == Init /\ [][NextFormatMetrics]_vars

\* the stats a player can have in one format: a strong record and an even one
PlayerFormatStats ==
    {[rating |-> 1200, wins |-> (4 * MaxGames) \div 5,
      losses |-> MaxGames - (4 * MaxGames) \div 5, draws |-> 0],
     [rating |-> 1200, wins |-> MaxGames \div 2,
      losses |-> MaxGames - MaxGames \div 2, draws |-> 0]}

\* the stats of a player: what fetchPlayerStats returns, for each choice of the
\* formats the player has played
PlayerStats ==
    UNION {[played -> PlayerFormatStats] :
               played \in SUBSET {GAME_FORMATS[i] : i \in DOMAIN GAME_FORMATS}}

\* the recent games of a player: MIN_GAMES rated wins in each format of active
PlayerRecentGames(active) ==
    [i \in 1 .. MIN_GAMES * Len(active) |->
        RecentGame(timeClassOf(active[(i - 1) \div MIN_GAMES + 1]), 1200, "win", <<>>, TRUE)]

\* the elements of GAME_FORMATS that are in formats, in the order of GAME_FORMATS
gameFormatsIn(formats) ==
    SelectSeq(GAME_FORMATS, LAMBDA format : format \in formats)

\* the playerData gatherPlayerData can return
PlayerDatas ==
    {[profile |-> [joined |-> 0, username |-> u], stats |-> t,
      recentGames |-> PlayerRecentGames(gameFormatsIn(active))] :
        u \in Usernames, t \in PlayerStats,
        active \in SUBSET {GAME_FORMATS[i] : i \in DOMAIN GAME_FORMATS}}

\* calculateRiskScoreFromUsername from the return of gatherPlayerData on:
\* calculatePlayerMetrics, then calculateRiskScore of the metrics it returns
scorePlayerMetrics(cache, metrics, debug) ==
    [metrics |-> metrics] @@ calculateRiskScore(cache, metrics, debug)

CallCalculatePlayerMetrics(playerData, completion) ==
    /\ pc = "idle"
    /\ Returns([op |-> "calculatePlayerMetrics", playerData |-> playerData],
               scorePlayerMetrics(weightCache,
                   calculatePlayerMetrics(playerData, now, DEFAULT_SETTINGS, completion),
                   FALSE))

\* a caller that scores player data, the calculateFormatMetrics calls completing
\* in any order
NextPlayerMetrics ==
    \/ \E playerData \in PlayerDatas :
           \E completion \in Orders(DOMAIN playerData.stats) :
               CallCalculatePlayerMetrics(playerData, completion)
    \/ Return

SpecPlayerMetrics == Init /\ [][NextPlayerMetrics]_vars

(***************************************************************************)
(* The background script and the options page (src/unnamed/part_000):      *)
(* saveSettings of the page writes the settings to browser.storage.local   *)
(* between two analyses.                                                    *)
(***************************************************************************)
\* the <<MODERATE_RISK_THRESHOLD, HIGH_RISK_THRESHOLD>> the user enters: the
\* defaults, the high boundary raised, both raised, and a pair the page refuses
ThresholdChoices == {<<50, 70>>, <<50, 80>>, <<60, 80>>, <<70, 60>>}

\* saveSettings of the options page, the write to storage succeeding
SaveSettings(moderate, high) ==
    /\ \A id \in InFlight : handlers[id] = Idle
    /\ ~(moderate >= high)
    /\ storage' = ("settings" :> [RATED_ONLY |-> TRUE, AUTO_OPEN_POPUP |-> TRUE,
                                  SHOW_IN_PAGE_BADGE |-> TRUE,
                                  MODERATE_RISK_THRESHOLD |-> moderate,
                                  HIGH_RISK_THRESHOLD |-> high]) @@ storage
    /\ UNCHANGED <<engineVars, utilsVars, contentVars, now, currentOpponentData,
                   opponentHistory, analysisCache, handlers>>

NextSettings ==
    \/ \E id \in InFlight, username \in {"Ann", "bob"} : AnalyzeOpponent(id, username)
    \/ \E id \in Gathering :
           \E profile \in {p \in ProfileFetches(handlers[id].username) :
                               p.fulfilled /\ p.value.ok /\ p.value.json.joined # <<>>},
              stats \in {s \in StatsFetches : s.fulfilled => s.value.ok},
              archives \in {a \in ArchiveFetches(handlers[id].username) :
                                Len(a) = 1} :
                  GatherPlayerData(id, profile, stats, archives)
    \/ \E id \in InFlight, written \in BOOLEAN : HistorySaved(id, written)
    \/ \E id \in InFlight : SendResponse(id)
    \/ \E t \in ThresholdChoices : SaveSettings(t[1], t[2])

SpecSettings == Init /\ [][NextSettings]_vars

(***************************************************************************)
(* content/content.js.  document is the username extractOpponentUsername   *)
(* finds on the page, or null; badgeElement is null or the response the    *)
(* badge was built from.  The background script answers each message in    *)
(* its own time: the responses arrive in any order.                        *)
(***************************************************************************)
\* the opponents the user meets
ContentOpponents == {"Ann", "bob", "cy"}

\* the responses to an analyzeOpponent message: a result, or a tagged error
ContentResponses(username) ==
    {[username |-> username, maxScore |-> [value |-> 74, format |-> "chess_blitz"],
      riskLevel |-> getRiskLevel(74)],
     [error |-> "Failed to fetch player profile"]}

\* the page comes to show a game against username (a mutation of the DOM)
PageShows(username) ==
    /\ document # username
    /\ document' = username
    /\ UNCHANGED <<engineVars, backgroundVars, utilsVars, lastOpponent, badgeElement,
                   pending>>

\* checkForOpponent finding a new opponent: analyzeOpponent sends the message
CheckForOpponent ==
    /\ document # NoUsername /\ document # lastOpponent
    /\ lastOpponent' = document
    /\ pending' = pending \cup {document}
    /\ UNCHANGED <<engineVars, backgroundVars, utilsVars, badgeElement, document>>

\* the callback of urlObserver after a navigation of the single-page app to a
\* page that shows shown (null, or the opponent of the new game)
UrlChanged(shown) ==
    /\ lastOpponent' = NoUsername
    /\ badgeElement' = NoData
    /\ document' = shown
    /\ UNCHANGED <<engineVars, backgroundVars, utilsVars, pending>>

\* displayRiskBadge: the new value of badgeElement
displayRiskBadge(data) == IF document = NoUsername THEN NoData ELSE data

\* analyzeOpponent after its await: the response to the message for username
ResponseArrived(username, response) ==
    /\ username \in pending
    /\ pending' = pending \ {username}
    /\ IF "error" \notin DOMAIN response
       THEN badgeElement' = displayRiskBadge(response)
       ELSE UNCHANGED badgeElement
    /\ UNCHANGED <<engineVars, backgroundVars, utilsVars, lastOpponent, document>>

NextContent ==
    \/ \E username \in ContentOpponents : PageShows(username)
    \/ CheckForOpponent
    \/ \E shown \in ContentOpponents \cup {NoUsername} : UrlChanged(shown)
    \/ \E username \in ContentOpponents :
           \E response \in ContentResponses(username) : ResponseArrived(username, response)

SpecContent == Init /\ [][NextContent]_vars

(***************************************************************************)
(* The two caches called directly: apiCache of the caching utils.js        *)
(* (src/unnamed/part_001) with the keys its fetch functions build, and     *)
(* analysisCache of the background script.  A payload records the player   *)
(* it was fetched for and the time it was stored.                          *)
(***************************************************************************)
CACHE_TTL_MS == 5 * 60 * 1000

\* returns [ret, apiCache]: an expired entry is deleted
getCached(cache, time, key) ==
    IF key \notin DOMAIN cache
    THEN [ret |-> NoData, apiCache |-> cache]
    ELSE IF time - cache[key].timestamp > CACHE_TTL_MS
    THEN [ret |-> NoData, apiCache |-> [k \in DOMAIN cache \ {key} |-> cache[k]]]
    ELSE [ret |-> cache[key].data, apiCache |-> cache]

setCache(cache, time, key, data) == (key :> [data |-> data, timestamp |-> time]) @@ cache

\* `profile_${username.toLowerCase()}` and `stats_${username.toLowerCase()}`
cacheKey(kind, username) == kind \o "_" \o toLowerCase(username)

\* what is fetched: the profile of either spelling of one player, the profile
\* of another player, and the stats of the first
CachedFetches ==
    {[kind |-> "profile", username |-> "Ann"], [kind |-> "profile", username |-> "ann"],
     [kind |-> "profile", username |-> "bob"], [kind |-> "stats", username |-> "Ann"]}

\* the usernames analysed
CachedUsernames == {"Ann", "ann", "bob"}

\* setCache(cacheKey, result) of a fetch function
CallSetCache(kind, username) ==
    /\ pc = "idle"
    /\ pc' = "done"
    /\ apiCache' = setCache(apiCache, now, cacheKey(kind, username),
                            [kind |-> kind, username |-> username, storedAt |-> now])
    /\ call' = [op |-> "setCache", kind |-> kind, username |-> username, at |-> now]
    /\ UNCHANGED <<weightCache, THRESHOLDS, backgroundVars, contentVars>>

\* getCached(cacheKey) of a fetch function; cached is its [ret, apiCache]
CallGetCached(kind, username, cached) ==
    /\ pc = "idle"
    /\ pc' = "done"
    /\ apiCache' = cached.apiCache
    /\ call' = [op |-> "getCached", kind |-> kind, username |-> username, at |-> now,
                ret |-> cached.ret]
    /\ UNCHANGED <<weightCache, THRESHOLDS, backgroundVars, contentVars>>

\* setCachedAnalysis(username, currentOpponentData) of analyzeOpponent
CallSetCachedAnalysis(username) ==
    /\ pc = "idle"
    /\ pc' = "done"
    /\ analysisCache' = setCachedAnalysis(analysisCache, now, username,
                                          [username |-> username, storedAt |-> now])
    /\ call' = [op |-> "setCachedAnalysis", username |-> username, at |-> now]
    /\ UNCHANGED <<weightCache, THRESHOLDS, now, currentOpponentData, opponentHistory,
                   storage, handlers, utilsVars, contentVars>>

\* getCachedAnalysis(username) of analyzeOpponent; cached is its [ret, analysisCache]
CallGetCachedAnalysis(username, cached) ==
    /\ pc = "idle"
    /\ pc' = "done"
    /\ analysisCache' = cached.analysisCache
    /\ call' = [op |-> "getCachedAnalysis", username |-> username, at |-> now,
                ret |-> cached.ret]
    /\ UNCHANGED <<weightCache, THRESHOLDS, now, currentOpponentData, opponentHistory,
                   storage, handlers, utilsVars, contentVars>>

NextCache ==
    \/ \E f \in CachedFetches : CallSetCache(f.kind, f.username)
    \/ \E f \in CachedFetches :
           CallGetCached(f.kind, f.username,
                         getCached(apiCache, now, cacheKey(f.kind, f.username)))
    \/ \E username \in CachedUsernames : CallSetCachedAnalysis(username)
    \/ \E username \in CachedUsernames :
           CallGetCachedAnalysis(username, getCachedAnalysis(analysisCache, now, username))
    \/ \E elapsed \in {ANALYSIS_CACHE_TTL_MS, ANALYSIS_CACHE_TTL_MS + 1} : Tick(elapsed)
    \/ Return

SpecCache == Init /\ [][NextCache]_vars

(***************************************************************************)
(* utils.js: fetchWithRetry.  call holds the locals of the call in         *)
(* progress: attempt, lastError, the time since the call started (time),   *)
(* the times at which fetch was called (requests) and how each fetch       *)
(* settled (settled).  pc is "fetch" during the await of fetch and "delay" *)
(* during the await of the timer.                                          *)
(***************************************************************************)
DEFAULT_MAX_RETRIES == 3

DEFAULT_BASE_DELAY == 1000

\* the status codes the server answers with
Statuses == {200, 404, 429, 500, 503}

\* the messages of the errors fetch rejects with: a network error, and an abort
FetchErrors == {"Failed to fetch", "The operation was aborted"}

\* the time a fetch takes to settle
Latencies == {0, 250}

\* new Error(`Retryable error: ${response.status}`).message
retryableMessage(status) == "Retryable error: " \o ToString(status)

\* message.includes(searchString), for the messages of the model
includes(message, searchString) ==
    CASE searchString = "Retryable error" ->
             message \in {retryableMessage(status) : status \in Statuses}
      [] searchString = "Failed to fetch" -> message = "Failed to fetch"

\* the test on response.status
isRetryableStatus(status) == status >= 500 \/ status = 429

\* the test of the catch block, negated: the loop goes on
isRetryableError(message) ==
    ~(~includes(message, "Retryable error") /\ ~includes(message, "Failed to fetch"))

\* 2 to the power of n
RECURSIVE Pow2(_)
Pow2(n) == IF n = 0 THEN 1 ELSE 2 * Pow2(n - 1)

\* the delay growing by baseDelay with each attempt instead of doubling
retryDelayLinear(baseDelay, attempt) == baseDelay * (attempt + 1)

\* baseDelay * Math.pow(2, attempt)
retryDelay(baseDelay, attempt) == baseDelay * Pow2(attempt)

\* the call, up to the first await of fetch
CallFetchWithRetry(maxRetries, baseDelay) ==
    /\ pc = "idle"
    /\ pc' = "fetch"
    /\ call' = [op |-> "fetchWithRetry", maxRetries |-> maxRetries,
                baseDelay |-> baseDelay, attempt |-> 0, lastError |-> "undefined",
                time |-> 0, requests |-> <<0>>, settled |-> <<>>]
    /\ UNCHANGED <<weightCache, THRESHOLDS, backgroundVars, utilsVars, contentVars>>

\* the call ends: it returns the response or throws the error
fetchEnds(locals, result) ==
    /\ pc' = "done"
    /\ call' = locals @@ [ret |-> result]

\* the catch block, error being the message of the error caught
fetchCatch(locals, error) ==
    IF ~isRetryableError(error)
    THEN fetchEnds([locals EXCEPT !.lastError = error], Rejected(error))
    ELSE IF locals.attempt = locals.maxRetries
    THEN fetchEnds([locals EXCEPT !.lastError = error], Rejected(error))
    ELSE /\ pc' = "delay"
         /\ call' = [locals EXCEPT !.lastError = error]

\* the fetch settles after latency: settled is Fulfilled(status) or
\* Rejected(message)
FetchSettled(settled, latency) ==
    /\ pc = "fetch"
    /\ IF settled.fulfilled /\ ~isRetryableStatus(settled.value)
       THEN fetchEnds([call EXCEPT !.time = @ + latency,
                                   !.settled = Append(@, [at |-> call.time + latency,
                                                          how |-> settled])],
                      settled)
       ELSE fetchCatch([call EXCEPT !.time = @ + latency,
                                    !.settled = Append(@, [at |-> call.time + latency,
                                                           how |-> settled])],
                       IF settled.fulfilled THEN retryableMessage(settled.value)
                       ELSE settled.message)
    /\ UNCHANGED <<weightCache, THRESHOLDS, backgroundVars, utilsVars, contentVars>>

\* the timer of the delay fires: the next iteration of the loop calls fetch
TimerFired ==
    /\ pc = "delay"
    /\ pc' = "fetch"
    /\ call' = [call EXCEPT
                   !.time = @ + retryDelay(call.baseDelay, call.attempt),
                   !.attempt = @ + 1,
                   !.requests = Append(@, call.time + retryDelay(call.baseDelay, call.attempt))]
    /\ UNCHANGED <<weightCache, THRESHOLDS, backgroundVars, utilsVars, contentVars>>

FetchOutcomes ==
    {Fulfilled(status) : status \in Statuses} \cup {Rejected(message) : message \in FetchErrors}

NextFetch ==
    \/ \E maxRetries \in {0, 1, DEFAULT_MAX_RETRIES}, baseDelay \in {DEFAULT_BASE_DELAY \div 4, DEFAULT_BASE_DELAY} :
           CallFetchWithRetry(maxRetries, baseDelay)
    \/ \E settled \in FetchOutcomes, latency \in Latencies : FetchSettled(settled, latency)
    \/ TimerFired
    \/ Return

\* every fetch settles and every timer fires
SpecFetch ==
    /\ Init /\ [][NextFetch]_vars
    /\ WF_vars(\E settled \in FetchOutcomes, latency \in Latencies : FetchSettled(settled, latency))
    /\ WF_vars(TimerFired)

(***************************************************************************)
(* Properties.                                                             *)
(***************************************************************************)

\* the confidence weight n/(n+20) of a sample of n
ClaimedWeight(n) == Rat(n, n + 20)

\* the FormatStats invariants: win rates and highAccuracyPercentage in 0..100,
\* game counts not negative
ValidFormatStats(f) ==
    /\ RLe(Num(0), f.overallWinrate) /\ RLe(f.overallWinrate, Num(100))
    /\ RLe(Num(0), f.recentGames.winrate) /\ RLe(f.recentGames.winrate, Num(100))
    /\ RLe(Num(0), f.accuracy.highAccuracyPercentage)
    /\ RLe(f.accuracy.highAccuracyPercentage, Num(100))
    /\ f.gamesCounts.total >= 0 /\ f.recentGames.total >= 0
    /\ f.accuracy.gamesWithAccuracy >= 0

\* the calculateRiskScore call that has just returned
RiskCall == call.op = "calculateRiskScore"

\* the positions in metrics.formats of the formats with at least 5 recent games
EligibleFormats == {i \in DOMAIN call.metrics.formats :
                        call.metrics.formats[i].stats.recentGames.total >= 5}

\* 0.35 * winRateScore(overall) + 0.35 * winRateScore(recent) + 0.30 * accuracyScore
ClaimedWeightedSum(f) ==
    RAdd(RAdd(RMul(Rat(35, 100),
                   calculateWinRateScore(<< >>, RDiv(f.overallWinrate, Num(100)),
                                         f.gamesCounts.total).ret),
              RMul(Rat(35, 100),
                   calculateWinRateScore(<< >>, RDiv(f.recentGames.winrate, Num(100)),
                                         f.recentGames.total).ret)),
         RMul(Rat(30, 100),
              calculateHighAccuracyScore(<< >>, f.accuracy, f.currentRating).ret.score))

\* min(100, accountAgeFactor * weightedSum) of the format at position i
ClaimedFinalScore(i) ==
    LET product == RMul(calculateAccountAgeFactor(call.metrics.accountAge),
                        ClaimedWeightedSum(call.metrics.formats[i].stats))
    IN  IF RLt(product, Num(100)) THEN product ELSE Num(100)

\* the formats of the result: the headline format and those of otherFormats
ReportedFormats ==
    (IF call.ret.maxScore.format = "null" THEN {} ELSE {call.ret.maxScore.format})
    \cup {call.ret.otherFormats[k].format : k \in DOMAIN call.ret.otherFormats}

\* C1: for valid FormatStats and any accountAge every per-format score of
\* calculateRiskScore (the headline score before rounding and each
\* otherFormats[i].score) lies in [0,100], and maxScore.value is an integer in 0..100.
ScoresWithinRange ==
    (RiskCall /\ \A i \in DOMAIN call.metrics.formats :
                     ValidFormatStats(call.metrics.formats[i].stats)) =>
        /\ \A j \in DOMAIN call.formatScores :
               /\ RLe(Num(0), call.formatScores[j].score)
               /\ RLe(call.formatScores[j].score, Num(100))
        /\ \A k \in DOMAIN call.ret.otherFormats :
               /\ RLe(Num(0), call.ret.otherFormats[k].score)
               /\ RLe(call.ret.otherFormats[k].score, Num(100))
        /\ call.ret.maxScore.value \in 0 .. 100

\* the headline format was above 100 before the cap and is reported as 100, next
\* to a format strictly between 0 and 100
ScoresWithinRangeWitness ==
    /\ RiskCall /\ call.debug
    /\ Len(call.ret.otherFormats) >= 1
    /\ RGt(call.ret.maxScore.factors.calculation.beforeCap, Num(100))
    /\ call.ret.maxScore.value = 100
    /\ \E k \in DOMAIN call.ret.otherFormats :
           /\ RLt(Num(0), call.ret.otherFormats[k].score)
           /\ RLt(call.ret.otherFormats[k].score, Num(100))

\* C2: the score reported for each eligible format is
\* min(100, accountAgeFactor * (0.35*overall + 0.35*recent + 0.30*accuracy)): one
\* cap, after the multiplication, and nothing capped before it.
FormatScoreFormula ==
    RiskCall =>
        \A i \in EligibleFormats :
            \E j \in DOMAIN call.formatScores :
                LET fs == call.formatScores[j]
                    f == call.metrics.formats[i].stats
                IN  /\ fs.format = call.metrics.formats[i].format
                    /\ fs.score = ClaimedFinalScore(i)
                    /\ IF j = 1
                       THEN call.ret.maxScore.format = fs.format
                       ELSE call.ret.otherFormats[j - 1] = fs
                    /\ call.debug =>
                           /\ fs.factors.calculation.weightedSum = ClaimedWeightedSum(f)
                           /\ fs.factors.calculation.beforeCap =
                                  RMul(calculateAccountAgeFactor(call.metrics.accountAge),
                                       ClaimedWeightedSum(f))
                           /\ fs.factors.calculation.afterCap = ClaimedFinalScore(i)

\* a young account whose weighted sum is below 100 and whose product with the
\* factor 1.5 is above 100: the score is 100
FormatScoreFormulaWitness ==
    /\ RiskCall /\ call.debug
    /\ call.ret.accountAgeScore = Rat(3, 2)
    /\ \E j \in DOMAIN call.formatScores :
           LET c == call.formatScores[j].factors.calculation
           IN  /\ RLt(c.weightedSum, Num(100))
               /\ RGt(c.beforeCap, Num(100))
               /\ call.formatScores[j].score = Num(100)

\* C3: no format with fewer than 5 recent games is maxScore.format or in
\* otherFormats, whatever its other values; every format with at least 5 recent
\* games is in exactly one of the two.
MinGamesFilter ==
    RiskCall =>
        \A i \in DOMAIN call.metrics.formats :
            LET name == call.metrics.formats[i].format
                others == {k \in DOMAIN call.ret.otherFormats :
                               call.ret.otherFormats[k].format = name}
            IN  IF i \in EligibleFormats
                THEN \/ call.ret.maxScore.format = name /\ others = {}
                     \/ call.ret.maxScore.format # name /\ Cardinality(others) = 1
                ELSE call.ret.maxScore.format # name /\ others = {}

\* a format that won all its games, recent ones included, but has only 4 recent
\* games is left out of a result that reports two other formats
MinGamesFilterWitness ==
    /\ RiskCall
    /\ Len(call.metrics.formats) = 3
    /\ Len(call.ret.otherFormats) = 1
    /\ \E i \in DOMAIN call.metrics.formats :
           /\ call.metrics.formats[i].stats.recentGames.total = 4
           /\ call.metrics.formats[i].stats.recentGames.winrate = Num(100)
           /\ call.metrics.formats[i].stats.overallWinrate = Num(100)
           /\ call.metrics.formats[i].format \notin ReportedFormats

\* C4: when metrics.formats is empty or every format has fewer than 5 recent games,
\* calculateRiskScore returns the sentinel: value 0, format null, reason
\* 'no_rated_games', otherFormats empty, whatever the other values of the input.
NoRatedGamesSentinel ==
    (RiskCall /\ EligibleFormats = {}) =>
        /\ call.ret.maxScore.value = 0
        /\ call.ret.maxScore.format = "null"
        /\ "reason" \in DOMAIN call.ret.maxScore
        /\ call.ret.maxScore.reason = "no_rated_games"
        /\ call.ret.otherFormats = <<>>

\* the sentinel was returned for a young account with formats that won every game
NoRatedGamesSentinelWitness ==
    /\ RiskCall
    /\ Len(call.metrics.formats) = 2
    /\ EligibleFormats = {}
    /\ call.metrics.accountAge <= 60
    /\ \A i \in DOMAIN call.metrics.formats :
           call.metrics.formats[i].stats.overallWinrate = Num(100)
    /\ call.ret.maxScore.reason = "no_rated_games"

\* C5: with at least one eligible format, maxScore.value is the nearest integer to
\* the maximum final score over the eligible formats, maxScore.format attains that
\* maximum, and otherFormats lists the remaining eligible formats, each once, in
\* non-increasing order of score.
MaxScoreSelection ==
    (RiskCall /\ EligibleFormats # {}) =>
        LET other == call.ret.otherFormats
            value == call.ret.maxScore.value
        IN  /\ \E i \in EligibleFormats :
                   LET top == ClaimedFinalScore(i)
                       diff == 2 * (value * top[2] - top[1])
                   IN  /\ call.metrics.formats[i].format = call.ret.maxScore.format
                       /\ \A j \in EligibleFormats : RLe(ClaimedFinalScore(j), top)
                       /\ -top[2] <= diff /\ diff <= top[2]
            /\ Len(other) = Cardinality(EligibleFormats) - 1
            /\ \A k \in DOMAIN other :
                   /\ other[k].format # call.ret.maxScore.format
                   /\ \E i \in EligibleFormats :
                          /\ call.metrics.formats[i].format = other[k].format
                          /\ other[k].score = ClaimedFinalScore(i)
                   /\ \A l \in DOMAIN other : other[l].format = other[k].format => l = k
                   /\ k < Len(other) => RLe(other[k + 1].score, other[k].score)

\* three eligible formats given in increasing order of score: the last one is the
\* headline and the other two are reported in decreasing order
MaxScoreSelectionWitness ==
    /\ RiskCall
    /\ Len(call.ret.otherFormats) = 2
    /\ call.metrics.formats[3].format = call.ret.maxScore.format
    /\ call.metrics.formats[2].format = call.ret.otherFormats[1].format
    /\ call.metrics.formats[1].format = call.ret.otherFormats[2].format
    /\ RLt(call.ret.otherFormats[2].score, call.ret.otherFormats[1].score)
    /\ RLt(call.ret.otherFormats[1].score, Num(call.ret.maxScore.value))

\* C6: for every integer score in 0..100 getRiskLevel returns LOW iff score <= 30,
\* MODERATE iff 31 <= score <= 50, HIGH iff 51 <= score <= 70 and VERY_HIGH iff
\* score >= 71, and the [min, max] range of the returned level contains the score.
RiskLevelBoundaries ==
    call.op = "getRiskLevel" =>
        /\ (call.ret.label = "Low Risk") <=> (call.score <= 30)
        /\ (call.ret.label = "Moderate Risk") <=> (31 <= call.score /\ call.score <= 50)
        /\ (call.ret.label = "High Risk") <=> (51 <= call.score /\ call.score <= 70)
        /\ (call.ret.label = "Very High Risk") <=> (call.score >= 71)
        /\ call.ret.min <= call.score /\ call.score <= call.ret.max

\* a score on a boundary has been classified: 50 as MODERATE
RiskLevelBoundariesWitness ==
    call.op = "getRiskLevel" /\ call.score = 50 /\ call.ret = RISK_LEVELS.MODERATE

WeightFormula ==
    /\ call.op = "calculateWeight" =>
           /\ call.ret[1] * (call.n + 20) = call.n * call.ret[2]
           /\ call.ret[2] > 0
           /\ 0 <= call.ret[1] /\ call.ret[1] < call.ret[2]
           /\ call.n = 0 => call.ret[1] = 0
           /\ weightCache[call.n] = call.ret
    /\ \A m \in DOMAIN weightCache, n \in DOMAIN weightCache :
           m < n => weightCache[m][1] * weightCache[n][2] < weightCache[n][1] * weightCache[m][2]

\* the weights of MIN_GAMES - 1 and of MIN_GAMES games have both been returned
WeightFormulaWitness ==
    /\ call.op = "calculateWeight" /\ call.n = 5 /\ call.ret = <<1, 5>>
    /\ 4 \in DOMAIN weightCache /\ 0 \in DOMAIN weightCache

\* C11: a call of calculateRiskScore returns, in every field, what the same call
\* returns when the weight cache is empty: the result does not depend on what the
\* earlier calls left in the cache, so two calls with identical PlayerMetrics
\* return equal results whatever was called in between.
RiskScoreIgnoresCache ==
    RiskCall => call.ret = calculateRiskScore(<< >>, call.metrics, call.debug).ret

\* a player with a score was analysed while the cache held weights that only
\* earlier calls of other functions can have left (samples of 0 and of 4 games)
RiskScoreIgnoresCacheWitness ==
    /\ RiskCall
    /\ {0, 4} \subseteq DOMAIN weightCache
    /\ call.ret.maxScore.value > 0
    /\ Len(call.ret.otherFormats) >= 1

\* C12: after any sequence of calculateWeight calls and changes of
\* THRESHOLDS.WEIGHTING_K, calculateWeight(n) returns n/(n+K) for the K configured
\* at the time of the call.
WeightOfConfiguredK ==
    call.op = "calculateWeight" =>
        call.ret = Rat(call.n, call.n + THRESHOLDS.WEIGHTING_K)

\* C13: eligible formats with equal final scores are reported in their order in
\* metrics.formats: the earliest format with the highest score is maxScore.format,
\* and of two formats with equal scores the earlier one comes first in the result.
TieKeepsInputOrder ==
    (RiskCall /\ EligibleFormats # {}) =>
        LET position(name) == CHOOSE j \in DOMAIN call.formatScores :
                                  call.formatScores[j].format = name
            first == CHOOSE i \in EligibleFormats :
                         /\ \A j \in EligibleFormats :
                                RLe(ClaimedFinalScore(j), ClaimedFinalScore(i))
                         /\ \A j \in EligibleFormats :
                                ClaimedFinalScore(j) = ClaimedFinalScore(i) => i <= j
        IN  /\ call.ret.maxScore.format = call.metrics.formats[first].format
            /\ \A i \in EligibleFormats, j \in EligibleFormats :
                   (i < j /\ ClaimedFinalScore(i) = ClaimedFinalScore(j)) =>
                       /\ position(call.metrics.formats[i].format)
                              < position(call.metrics.formats[j].format)
                       /\ call.ret.otherFormats[position(call.metrics.formats[j].format) - 1].format
                              = call.metrics.formats[j].format

\* the first and the third format are both capped at 100 and the second is lower:
\* the first is the headline and the third leads otherFormats
TieKeepsInputOrderWitness ==
    /\ RiskCall
    /\ Len(call.ret.otherFormats) = 2
    /\ call.ret.maxScore.format = call.metrics.formats[1].format
    /\ call.ret.otherFormats[1].format = call.metrics.formats[3].format
    /\ call.ret.otherFormats[1].score = Num(100)
    /\ call.ret.maxScore.value = 100
    /\ RLt(call.ret.otherFormats[2].score, Num(100))

\* C14: if a fetch made for the player failed (the profile, the stats or a monthly
\* archive of games), the response of analyzeOpponent is a tagged {error}; a
\* response with a score (maxScore.value = 0 and reason 'no_rated_games' included)
\* is given only when every fetch returned the data.
FetchFailureGivesError ==
    \A id \in InFlight :
        (handlers[id].pc = "respond" /\ handlers[id].action = "analyzeOpponent"
            /\ handlers[id].gathered) =>
            /\ handlers[id].failed # {} => "error" \in DOMAIN handlers[id].response
            /\ "maxScore" \in DOMAIN handlers[id].response => handlers[id].failed = {}

\* the usernames of opponentHistory, lower-cased, in the order of the entries
HistoryKeys == [i \in DOMAIN opponentHistory |-> toLowerCase(opponentHistory[i].username)]

\* a step of addToHistory for a username opponentHistory already has: the entry
\* of that username is replaced by the new one and nothing is added or removed
ReplacesEntry ==
    (opponentHistory' # opponentHistory /\ opponentHistory' # <<>>
        /\ \E i \in DOMAIN opponentHistory :
               HistoryKeys[i] = toLowerCase(currentOpponentData'.username)) =>
        /\ Len(opponentHistory') = Len(opponentHistory)
        /\ \A i \in DOMAIN opponentHistory :
               IF HistoryKeys[i] = toLowerCase(currentOpponentData'.username)
               THEN opponentHistory'[i] = historyEntryOf(currentOpponentData')
               ELSE opponentHistory'[i] = opponentHistory[i]

\* C17: after any sequence of analyzeOpponent and clearHistory messages, starting
\* from an empty history, opponentHistory has at most HistoryLimit entries (the 50
\* of the code) and no two entries whose usernames are equal ignoring case;
\* analysing a username that has an entry replaces the entry.
HistoryBoundedAndDistinct ==
    /\ [](/\ Len(opponentHistory) <= HistoryLimit
          /\ \A i, j \in DOMAIN opponentHistory : HistoryKeys[i] = HistoryKeys[j] => i = j)
    /\ [][ReplacesEntry]_vars

\* three players have been analysed, the history is full and its last entry has
\* been replaced after the first one was added
HistoryBoundedAndDistinctWitness ==
    /\ Cardinality(DOMAIN analysisCache) > HistoryLimit
    /\ Len(opponentHistory) = HistoryLimit
    /\ opponentHistory[HistoryLimit].analyzedAt > opponentHistory[1].analyzedAt

\* C18: opponentHistory is ordered most recently added or updated first: when
\* addToHistory has run, the entry of its username is at index 0, and no entry
\* comes before one that was added or updated later (so the entry a full history
\* drops is the least recently added or updated).
HistoryMostRecentFirst ==
    /\ \A id \in InFlight :
           handlers[id].pc = "saving" =>
               HistoryKeys[1] = toLowerCase(handlers[id].data.username)
    /\ \A i, j \in DOMAIN opponentHistory :
           i < j => opponentHistory[i].analyzedAt >= opponentHistory[j].analyzedAt

\* the data-model invariants of a PlayerMetrics: accountAge not negative and, in
\* every format, overallWinrate and highAccuracyPercentage in 0..100, the total
\* the sum of the counts and no more high-accuracy games than games with accuracy
SatisfiesDataModel(metrics) ==
    /\ metrics.accountAge >= 0
    /\ \A i \in DOMAIN metrics.formats :
           /\ RLe(Num(0), metrics.formats[i].stats.overallWinrate)
           /\ RLe(metrics.formats[i].stats.overallWinrate, Num(100))
           /\ metrics.formats[i].stats.gamesCounts.total
                  = metrics.formats[i].stats.gamesCounts.wins
                    + metrics.formats[i].stats.gamesCounts.losses
                    + metrics.formats[i].stats.gamesCounts.draws
           /\ metrics.formats[i].stats.accuracy.highAccuracyGames
                  <= metrics.formats[i].stats.accuracy.gamesWithAccuracy
           /\ RLe(Num(0), metrics.formats[i].stats.accuracy.highAccuracyPercentage)
           /\ RLe(metrics.formats[i].stats.accuracy.highAccuracyPercentage, Num(100))

\* a negative accountAge, or a format whose total is not wins + losses + draws
Malformed(metrics) ==
    \/ metrics.accountAge < 0
    \/ \E i \in DOMAIN metrics.formats :
           metrics.formats[i].stats.gamesCounts.total
               # metrics.formats[i].stats.gamesCounts.wins
                 + metrics.formats[i].stats.gamesCounts.losses
                 + metrics.formats[i].stats.gamesCounts.draws

\* C15: a malformed PlayerMetrics (negative accountAge, or a format whose
\* gamesCounts.total differs from wins + losses + draws) is rejected before
\* scoring: calculateRiskScore returns no risk score for it.
MalformedMetricsRejected ==
    (RiskCall /\ Malformed(call.metrics)) => "maxScore" \notin DOMAIN call.ret

\* C16: validateMetrics returns true for every PlayerMetrics that satisfies the
\* data-model invariants (accountAge >= 0, zero included) and false for every
\* other one.
ValidateMetricsChecksDataModel ==
    call.op = "validateMetrics" => call.ret = SatisfiesDataModel(call.metrics)

\* wins / total * 100, or 0 when total is 0
ClaimedWinrate(wins, total) == IF total = 0 THEN Num(0) ELSE Rat(100 * wins, total)

\* C20: for any lifetime counters that are not negative and any list of recent
\* games the FormatStats calculateFormatMetrics returns has gamesCounts.total =
\* wins + losses + draws of the counters, recentGames.total = recent wins + losses
\* + draws, each win rate equal to wins / total * 100 (0 when total is 0) and in
\* 0..100, highAccuracyGames <= gamesWithAccuracy and highAccuracyPercentage in
\* 0..100.
FormatMetricsSatisfyDataModel ==
    call.op = "calculateFormatMetrics" =>
        /\ call.ret.gamesCounts.wins = call.stats.wins
        /\ call.ret.gamesCounts.losses = call.stats.losses
        /\ call.ret.gamesCounts.draws = call.stats.draws
        /\ call.ret.gamesCounts.total
               = call.stats.wins + call.stats.losses + call.stats.draws
        /\ call.ret.recentGames.total
               = call.ret.recentGames.wins + call.ret.recentGames.losses
                 + call.ret.recentGames.draws
        /\ call.ret.recentGames.total <= Len(call.recentGames)
        /\ call.ret.overallWinrate
               = ClaimedWinrate(call.ret.gamesCounts.wins, call.ret.gamesCounts.total)
        /\ call.ret.recentGames.winrate
               = ClaimedWinrate(call.ret.recentGames.wins, call.ret.recentGames.total)
        /\ RLe(Num(0), call.ret.overallWinrate) /\ RLe(call.ret.overallWinrate, Num(100))
        /\ RLe(Num(0), call.ret.recentGames.winrate)
        /\ RLe(call.ret.recentGames.winrate, Num(100))
        /\ call.ret.accuracy.highAccuracyGames <= call.ret.accuracy.gamesWithAccuracy
        /\ call.ret.accuracy.gamesWithAccuracy <= call.ret.recentGames.total
        /\ RLe(Num(0), call.ret.accuracy.highAccuracyPercentage)
        /\ RLe(call.ret.accuracy.highAccuracyPercentage, Num(100))

\* a call with lifetime draws, a recent game left out by the filter, a recent
\* draw, and two games with accuracy of which one is a high-accuracy game
FormatMetricsSatisfyDataModelWitness ==
    /\ call.op = "calculateFormatMetrics"
    /\ call.ret.gamesCounts.draws > 0
    /\ call.ret.recentGames.total < Len(call.recentGames)
    /\ call.ret.recentGames.draws > 0
    /\ call.ret.accuracy.gamesWithAccuracy = 2
    /\ call.ret.accuracy.highAccuracyGames = 1

\* the positions in the recentGames of a calculateFormatMetrics call of the games
\* of the format (rated, when only rated games count) that have an accuracy
GamesWithAccuracyValue ==
    {i \in DOMAIN call.recentGames :
        /\ call.recentGames[i].timeClass = call.stats.timeClass
        /\ call.userSettings.RATED_ONLY => call.recentGames[i].rated
        /\ Len(call.recentGames[i].accuracy) = 1}

\* C21: in calculateFormatMetrics a recent game of the format with an accuracy
\* value counts as high-accuracy iff its accuracy is >= 80 when the player's
\* rating is below 1500, or >= 90 when the rating is 1500 or more; a game without
\* an accuracy value counts neither in gamesWithAccuracy nor in highAccuracyGames.
HighAccuracyByRating ==
    call.op = "calculateFormatMetrics" =>
        /\ call.ret.accuracy.gamesWithAccuracy = Cardinality(GamesWithAccuracyValue)
        /\ call.ret.accuracy.highAccuracyGames
               = Cardinality({i \in GamesWithAccuracyValue :
                     \/ /\ call.recentGames[i].playerRating < 1500
                        /\ call.recentGames[i].accuracy[1] >= 80
                     \/ /\ call.recentGames[i].playerRating >= 1500
                        /\ call.recentGames[i].accuracy[1] >= 90})

\* a call with a game of accuracy 80 at rating 1499, a game of accuracy 89 at
\* rating 1500 and a game without accuracy: one of the two games with accuracy
\* is a high-accuracy game
HighAccuracyByRatingWitness ==
    /\ call.op = "calculateFormatMetrics"
    /\ \E i \in GamesWithAccuracyValue :
           call.recentGames[i].playerRating = 1499 /\ call.recentGames[i].accuracy = <<80>>
    /\ \E i \in GamesWithAccuracyValue :
           call.recentGames[i].playerRating = 1500 /\ call.recentGames[i].accuracy = <<89>>
    /\ call.ret.recentGames.total = 3
    /\ call.ret.accuracy.gamesWithAccuracy = 2
    /\ call.ret.accuracy.highAccuracyGames = 1

\* C29: the format that calculateRiskScore reports as the headline of a player
\* is the one it reports when metrics.formats has its keys in the order of
\* GAME_FORMATS, for every order in which the calculateFormatMetrics calls of
\* calculatePlayerMetrics complete.
HeadlineFormatIsDetermined ==
    (pc = "done" /\ call.op = "calculatePlayerMetrics") =>
        call.ret.maxScore.format =
            calculateRiskScore(weightCache,
                calculatePlayerMetrics(call.playerData, now, DEFAULT_SETTINGS,
                                       gameFormatsIn(DOMAIN call.playerData.stats)),
                FALSE).ret.maxScore.format

\* f is g with one of the overall win rate, the recent win rate and the
\* high-accuracy percentage lower or equal, the sample sizes and the other
\* inputs being those of g
LowerInOneInput(f, g) ==
    /\ f.currentRating = g.currentRating
    /\ f.gamesCounts.total = g.gamesCounts.total
    /\ f.recentGames.total = g.recentGames.total
    /\ f.accuracy.gamesWithAccuracy = g.accuracy.gamesWithAccuracy
    /\ \/ /\ RLe(f.overallWinrate, g.overallWinrate)
          /\ f.recentGames = g.recentGames /\ f.accuracy = g.accuracy
       \/ /\ RLe(f.recentGames.winrate, g.recentGames.winrate)
          /\ f.gamesCounts = g.gamesCounts /\ f.accuracy = g.accuracy
       \/ /\ RLe(f.accuracy.highAccuracyPercentage, g.accuracy.highAccuracyPercentage)
          /\ f.gamesCounts = g.gamesCounts /\ f.recentGames = g.recentGames

\* the weighted sum calculateFormatRiskScore has returned in call
ReturnedWeightedSum == IF call.debug THEN call.ret.score ELSE call.ret

\* C30: the scoring is monotone.  For a fixed sample size calculateWinRateScore
\* does not decrease when the win rate increases and calculateHighAccuracyScore
\* does not decrease when the high-accuracy percentage increases; for a fixed win
\* rate or percentage neither decreases when the sample size increases; the
\* final score of a format does not decrease when one of its win rates or its
\* high-accuracy percentage increases, the other inputs being fixed.
ScoringIsMonotone ==
    /\ call.op = "calculateWinRateScore" =>
           /\ \A w \in WinRates :
                  RLe(w, call.winRate) =>
                      RLe(calculateWinRateScore(weightCache, w, call.totalGames).ret, call.ret)
           /\ \A n \in SampleSizes :
                  n <= call.totalGames =>
                      RLe(calculateWinRateScore(weightCache, call.winRate, n).ret, call.ret)
    /\ (call.op = "calculateHighAccuracyScore"
           /\ ~isNaN(call.accuracyData.highAccuracyPercentage)) =>
           /\ \A p \in Percentages :
                  RLe(p, call.accuracyData.highAccuracyPercentage) =>
                      RLe(calculateHighAccuracyScore(weightCache,
                              [call.accuracyData EXCEPT !.highAccuracyPercentage = p],
                              call.playerRating).ret.score,
                          call.ret.score)
           /\ \A n \in SampleSizes :
                  n <= call.accuracyData.gamesWithAccuracy =>
                      RLe(calculateHighAccuracyScore(weightCache,
                              [call.accuracyData EXCEPT !.gamesWithAccuracy = n],
                              call.playerRating).ret.score,
                          call.ret.score)
    /\ call.op = "calculateFormatRiskScore" =>
           \A f \in FormatStatsSet :
               LowerInOneInput(f, call.formatMetrics) =>
                   \A d \in AccountAges :
                       RLe(finalFormatScore(calculateAccountAgeFactor(d),
                               calculateFormatRiskScore(weightCache, f, FALSE).ret),
                           finalFormatScore(calculateAccountAgeFactor(d), ReturnedWeightedSum))

\* a win rate on the upper ramp over MaxGames games: the score is above the
\* score of a lower win rate and above the score of a smaller sample; and a
\* format whose final score is above that of the same format with a lower
\* recent win rate
ScoringIsMonotoneWitness ==
    \/ /\ call.op = "calculateWinRateScore"
       /\ RGt(call.winRate, MEDIUM_WINRATE_THRESHOLD) /\ call.totalGames = MaxGames
       /\ \E w \in WinRates :
              /\ RLt(w, call.winRate)
              /\ RLt(calculateWinRateScore(weightCache, w, call.totalGames).ret, call.ret)
       /\ \E n \in SampleSizes :
              /\ n < call.totalGames
              /\ RLt(calculateWinRateScore(weightCache, call.winRate, n).ret, call.ret)
    \/ /\ call.op = "calculateFormatRiskScore"
       /\ \E f \in FormatStatsSet :
              /\ LowerInOneInput(f, call.formatMetrics)
              /\ RLt(f.recentGames.winrate, call.formatMetrics.recentGames.winrate)
              /\ RLt(calculateFormatRiskScore(weightCache, f, FALSE).ret, ReturnedWeightedSum)

\* C27: whenever analyzeOpponent returns an {error} response (missing username,
\* failure while fetching or scoring, failure of the storage write of
\* addToHistory), currentOpponentData, the analysis cache and opponentHistory are
\* exactly as they were before the call.
ErrorLeavesStateUnchanged ==
    \A id \in InFlight :
        (handlers[id].pc = "respond" /\ handlers[id].action = "analyzeOpponent"
            /\ "error" \in DOMAIN handlers[id].response) =>
            Snapshot = handlers[id].before

\* C28: after an analyzeOpponent call that returns a successful result for a
\* username, opponentHistory has an entry for that username (ignoring case),
\* also when the result comes from the analysis cache and clearHistory has run
\* since the username was last analysed.
AnalysedIsInHistory ==
    \A id \in InFlight :
        (handlers[id].pc = "respond" /\ handlers[id].action = "analyzeOpponent"
            /\ "error" \notin DOMAIN handlers[id].response) =>
            \E i \in DOMAIN opponentHistory :
                HistoryKeys[i] = toLowerCase(handlers[id].username)

\* C26: the risk badge shown on the page always belongs to the most recently
\* detected opponent: the response for an opponent that arrives after another
\* opponent has been detected is not displayed.
BadgeOfLastOpponent ==
    (badgeElement # NoData /\ lastOpponent # NoUsername) =>
        badgeElement.username = lastOpponent

\* the tier of a score when the boundaries above LOW are moderate and high
ClaimedTier(score, moderate, high) ==
    IF score <= 30 THEN "Low Risk"
    ELSE IF score <= moderate THEN "Moderate Risk"
    ELSE IF score <= high THEN "High Risk"
    ELSE "Very High Risk"

\* C25: after saveSettings has stored MODERATE_RISK_THRESHOLD = m and
\* HIGH_RISK_THRESHOLD = h (m < h), every later analysis classifies its score
\* with m and h as the boundaries of the tiers.
TiersFollowSettings ==
    \A id \in InFlight :
        (handlers[id].pc = "saving" /\ "settings" \in DOMAIN storage) =>
            handlers[id].data.riskLevel.label
                = ClaimedTier(handlers[id].data.maxScore.value,
                              storage.settings.MODERATE_RISK_THRESHOLD,
                              storage.settings.HIGH_RISK_THRESHOLD)

\* C24: getCached(key) and getCachedAnalysis(username) return a payload only if
\* it was stored for the same username (ignoring case) at most 5 minutes
\* earlier; an entry older than that is deleted and reported as missing; a
\* payload stored for one player is never returned for another.
CachedPayloadFreshAndOwn ==
    /\ call.op = "getCached" =>
           /\ call.ret # NoData =>
                  /\ call.ret.kind = call.kind
                  /\ toLowerCase(call.ret.username) = toLowerCase(call.username)
                  /\ call.at - call.ret.storedAt <= 5 * 60 * 1000
           /\ call.ret = NoData => cacheKey(call.kind, call.username) \notin DOMAIN apiCache
    /\ call.op = "getCachedAnalysis" =>
           /\ call.ret # NoData =>
                  /\ toLowerCase(call.ret.username) = toLowerCase(call.username)
                  /\ call.at - call.ret.storedAt <= 5 * 60 * 1000
           /\ call.ret = NoData => toLowerCase(call.username) \notin DOMAIN analysisCache

\* a payload stored under the other spelling of the username exactly 5 minutes
\* earlier is returned, while another player has an entry too
CachedPayloadFreshAndOwnWitness ==
    /\ call.op = "getCachedAnalysis"
    /\ call.ret # NoData
    /\ call.ret.username # call.username
    /\ call.at - call.ret.storedAt = 5 * 60 * 1000
    /\ "bob" \in DOMAIN analysisCache
    /\ Cardinality(DOMAIN apiCache) >= 2

\* C23: every analyzeOpponent request eventually receives a response (a result
\* or an {error}), even when the remote server never answers one of the fetches.
AnalyzeOpponentResponds ==
    \A id \in InFlight :
        (handlers[id].pc = "gathering") ~> (handlers[id].pc = "respond")

\* the call in progress or just ended is one of fetchWithRetry
FetchCall == call.op = "fetchWithRetry"

\* an attempt that allows another one: a 5xx or 429 response, or the network
\* error 'Failed to fetch'
Transient(how) ==
    IF how.fulfilled THEN how.value >= 500 \/ how.value = 429
    ELSE how.message = "Failed to fetch"

\* the attempts, the waits and the result of a call of fetchWithRetry
RetriesBounded ==
    FetchCall =>
        /\ Len(call.requests) <= call.maxRetries + 1
        /\ call.maxRetries = 3 => Len(call.requests) <= 4
        /\ \A i \in DOMAIN call.requests :
               i > 1 => /\ Transient(call.settled[i - 1].how)
                        /\ call.requests[i] - call.settled[i - 1].at
                               = call.baseDelay * Pow2(i - 2)
        /\ (call.baseDelay = 1000 /\ Len(call.requests) = 4) =>
               /\ call.requests[2] - call.settled[1].at = 1000
               /\ call.requests[3] - call.settled[2].at = 2000
               /\ call.requests[4] - call.settled[3].at = 4000
        /\ pc # "done" => \A i \in DOMAIN call.settled : Transient(call.settled[i].how)
        /\ pc = "done" =>
               /\ Len(call.settled) = Len(call.requests)
               /\ call.ret.fulfilled =>
                      /\ ~Transient(call.settled[Len(call.settled)].how)
                      /\ call.ret = call.settled[Len(call.settled)].how
               /\ ~call.ret.fulfilled =>
                      /\ \/ ~Transient(call.settled[Len(call.settled)].how)
                         \/ Len(call.requests) = call.maxRetries + 1
                      /\ call.settled[Len(call.settled)].how.fulfilled =>
                             call.ret.message
                                 = "Retryable error: "
                                   \o ToString(call.settled[Len(call.settled)].how.value)
                      /\ ~call.settled[Len(call.settled)].how.fulfilled =>
                             call.ret.message = call.settled[Len(call.settled)].how.message

WorkedExample ==
    /\ RiskCall
    /\ call.metrics.accountAge = 30
    /\ Len(call.metrics.formats) = 1
    /\ call.metrics.formats[1].stats.gamesCounts = GameRecord(16, 20)
    /\ call.metrics.formats[1].stats.recentGames.total = 20
    /\ call.metrics.formats[1].stats.recentGames.wins = 16
    /\ call.metrics.formats[1].stats.accuracy.gamesWithAccuracy = 0

\* C19: for the player of the worked example each win-rate sub-score is 100 (raw
\* 200 times the weight 1/2), the accuracy sub-score is 0, the weighted sum 70,
\* the value before the cap 105 and after the cap 100; maxScore.value is 100 and
\* getRiskLevel gives VERY_HIGH.
WorkedExampleScores ==
    WorkedExample =>
        /\ call.metrics.formats[1].stats.overallWinrate = Num(80)
        /\ call.metrics.formats[1].stats.recentGames.winrate = Num(80)
        /\ rawWinRateScore(Rat(80, 100)) = Num(200)
        /\ calculateWeight(<< >>, 20).ret = Rat(1, 2)
        /\ call.ret.maxScore.value = 100
        /\ getRiskLevel(call.ret.maxScore.value) = RISK_LEVELS.VERY_HIGH
        /\ call.debug =>
               /\ call.ret.maxScore.factors.overallWinRate.score = Num(100)
               /\ call.ret.maxScore.factors.recentWinRate.score = Num(100)
               /\ call.ret.maxScore.factors.accuracy.weighted = Num(0)
               /\ call.ret.maxScore.factors.accuracy.baseScore = Num(0)
               /\ call.ret.maxScore.factors.calculation.weightedSum = Num(70)
               /\ call.ret.maxScore.factors.calculation.beforeCap = Num(105)
               /\ call.ret.maxScore.factors.calculation.afterCap = Num(100)

\* the worked example scored with the factors recorded
WorkedExampleScoresWitness ==
    /\ WorkedExample
    /\ call.debug
    /\ call.ret.maxScore.factors.calculation.beforeCap = Num(105)

\* the value at x of the straight line from (x0, y0) to (x1, y1)
Ramp(x, x0, x1, y0, y1) ==
    RAdd(y0, RMul(RDiv(RSub(x, x0), RSub(x1, x0)), RSub(y1, y0)))

\* raw(w) of the win-rate sub-score
ClaimedWinRateRaw(w) ==
    IF RLe(w, Rat(5, 10)) THEN Num(0)
    ELSE IF RLe(w, Rat(6, 10)) THEN Ramp(w, Rat(5, 10), Rat(6, 10), Num(0), Num(50))
    ELSE IF RLe(w, Rat(7, 10)) THEN Ramp(w, Rat(6, 10), Rat(7, 10), Num(50), Num(100))
    ELSE RAdd(Num(100), RMul(RDiv(RSub(w, Rat(7, 10)), Rat(1, 10)), Num(100)))

\* C8: calculateWinRateScore(w, n) = raw(w) * n/(n+20), with raw(w) = 0 for w <= 0.5,
\* the ramp 0 -> 50 on (0.5, 0.6], the ramp 50 -> 100 on (0.6, 0.7] and
\* 100 + ((w - 0.7)/0.1) * 100 above 0.7; raw is 50 at 0.6 and 100 at 0.7.
WinRateScoreFormula ==
    call.op = "calculateWinRateScore" =>
        /\ call.ret = RMul(ClaimedWinRateRaw(call.winRate), ClaimedWeight(call.totalGames))
        /\ RLe(call.winRate, Rat(1, 2)) => call.ret = Num(0)
        /\ call.winRate = Rat(6, 10) => call.ret = RMul(Num(50), ClaimedWeight(call.totalGames))
        /\ call.winRate = Rat(7, 10) => call.ret = RMul(Num(100), ClaimedWeight(call.totalGames))

\* the score of a win rate of exactly 0.7 over MaxGames games: 100 * 1/2
WinRateScoreFormulaWitness ==
    /\ call.op = "calculateWinRateScore"
    /\ call.winRate = Rat(7, 10) /\ call.totalGames = 20 /\ call.ret = Num(50)

\* raw(pct) of the high-accuracy sub-score, for pct > 10
ClaimedAccuracyRaw(pct) ==
    IF RLe(pct, Num(20)) THEN Ramp(pct, Num(10), Num(20), Num(0), Num(50))
    ELSE IF RLe(pct, Num(30)) THEN Ramp(pct, Num(20), Num(30), Num(50), Num(100))
    ELSE LET steps == CHOOSE k \in 0 .. 14 :
                          /\ RLe(Num(5 * k), RSub(pct, Num(30)))
                          /\ RLt(RSub(pct, Num(30)), Num(5 * (k + 1)))
         IN  Num(100 + steps * 50)

\* C9: calculateHighAccuracyScore returns score 0 with reason 'no_accuracy_data' when
\* gamesWithAccuracy = 0; otherwise score 0 with reason 'below_threshold' when
\* pct <= 10; otherwise raw * weight(gamesWithAccuracy) with raw the ramp 0 -> 50 on
\* (10, 20], the ramp 50 -> 100 on (20, 30] and 100 + floor((pct - 30)/5) * 50 above 30.
HighAccuracyScoreFormula ==
    call.op = "calculateHighAccuracyScore" =>
        LET g == call.accuracyData.gamesWithAccuracy
            pct == call.accuracyData.highAccuracyPercentage
        IN  /\ g = 0 =>
                   /\ call.ret.score = Num(0)
                   /\ call.ret.debug.reason = "no_accuracy_data"
            /\ (g # 0 /\ RLe(pct, Num(10))) =>
                   /\ call.ret.score = Num(0)
                   /\ call.ret.debug.reason = "below_threshold"
            /\ (g # 0 /\ RGt(pct, Num(10))) =>
                   /\ call.ret.score = RMul(ClaimedAccuracyRaw(pct), ClaimedWeight(g))
                   /\ call.ret.debug.baseScore = ClaimedAccuracyRaw(pct)

\* 34.5 percent of MaxGames games: four full points above 30 add nothing
HighAccuracyScoreFormulaWitness ==
    /\ call.op = "calculateHighAccuracyScore"
    /\ call.accuracyData.highAccuracyPercentage = Rat(69, 2)
    /\ call.accuracyData.gamesWithAccuracy = 20
    /\ call.ret.debug.baseScore = Num(100)
    /\ call.ret.score = Num(50)

====
